---------------------------- MODULE Spec2Model ----------------------------
(***************************************************************************)
(* A model of the GitHub activity server: the tool handlers of            *)
(* server.py and the client methods of github_client.py.                  *)
(*                                                                         *)
(* The server keeps no state between tool invocations, so the state is    *)
(* the last operation performed, the inputs it was given (its arguments   *)
(* and the upstream content it read) and what it produced.  Every action  *)
(* is one whole handler or method, computed as the code computes it.      *)
(***************************************************************************)
EXTENDS Integers, Sequences, FiniteSets, TLC

VARIABLES
    op,      \* name of the operation performed last ("idle" after construction)
    input,   \* its arguments and the upstream content it read
    output   \* what it returned or raised

vars == <<op, input, output>>

-----------------------------------------------------------------------------
(* Bounds of the model *)

MaxEvents == 2     \* longest upstream event stream
MaxLimit == 2      \* largest `limit` argument
MaxDays == 2       \* largest `days` argument
MaxRepos == 2      \* most repositories of a user
MaxCommits == 2    \* most commits upstream returns for one repository
MaxWords == 3      \* most words of a sample commit message
MaxSnippets == 2   \* most lines of a sample diff text
MaxKeys == 3       \* most keys of an exhaustively drawn frequency table
MaxCount == 2      \* largest count of a drawn frequency table

-----------------------------------------------------------------------------
(* Helpers *)

Min(a, b) == IF a < b THEN a ELSE b

Range(s) == {s[i] : i \in 1..Len(s)}

\* All sequences over S of length at most n.
SeqsUpTo(S, n) == UNION {[1..k -> S] : k \in 0..n}

\* Python's s[:n] for n >= 0.
Take(s, n) == SubSeq(s, 1, Min(n, Len(s)))

\* The text `p` occurs in the text `t` (Python's `p in t`).
Occurs(p, t) ==
    \E i \in 0..(Len(t) - Len(p)) : SubSeq(t, i + 1, i + Len(p)) = p

-----------------------------------------------------------------------------
(* Upstream events *)

\* Python's None where a name or a nested object is expected.
None == "<None>"

\* A raw event payload: `none` when the event has no payload at all, else a
\* dict holding the keys `has`, of which the keys `null` hold a JSON null.
PayloadFull ==
    [none |-> FALSE,
     has  |-> {"commits", "ref", "head", "size", "action", "issue",
               "pull_request", "ref_type", "description", "forkee",
               "release", "pages"},
     null |-> {}]
PayloadEmpty == [none |-> FALSE, has |-> {}, null |-> {}]
PayloadNone == [none |-> TRUE, has |-> {}, null |-> {}]
PayloadNulls ==
    [none |-> FALSE,
     has  |-> {"commits", "issue", "pull_request", "forkee", "release"},
     null |-> {"commits", "issue", "pull_request", "forkee", "release"}]

Payloads == {PayloadFull, PayloadEmpty, PayloadNone, PayloadNulls}

RecognizedTypes ==
    {"PushEvent", "IssuesEvent", "PullRequestEvent", "CreateEvent",
     "DeleteEvent", "WatchEvent", "ForkEvent", "ReleaseEvent"}

\* The key under which each recognized event type reads a nested object (or,
\* for PushEvent, the list it takes the length of): a JSON null there makes
\* the field extraction raise (None has no .get, len(None) is a TypeError).
NestedKey(type) ==
    CASE type = "PushEvent" -> "commits"
      [] type = "IssuesEvent" -> "issue"
      [] type = "PullRequestEvent" -> "pull_request"
      [] type = "ForkEvent" -> "forkee"
      [] type = "ReleaseEvent" -> "release"
      [] OTHER -> "<no nested key>"

\* event.payload.get(...) and the nested .get(...) calls raise.
FieldAccessRaises(event) ==
    \/ event.payload.none
    \/ NestedKey(event.type) \in event.payload.null

\* A projected payload: kind "fields" with the flat set of (dotted) keys it
\* holds, kind "raw" with the raw payload passed through, or kind "error".
Fields(keys) == [kind |-> "fields", keys |-> keys, raw |-> PayloadEmpty]
RawPayload(p) == [kind |-> "raw", keys |-> {}, raw |-> p]
ErrorPayload == [kind |-> "error", keys |-> {"error"}, raw |-> PayloadEmpty]

\* Variant: nested objects are copied whole under their own key instead of
\* being flattened into their documented fields.
ClientKeysTopLevel(type) ==
    CASE type = "PushEvent" -> {"commits", "ref", "head", "size"}
      [] type = "IssuesEvent" -> {"action", "issue"}
      [] type = "PullRequestEvent" -> {"action", "pull_request"}
      [] type = "CreateEvent" -> {"ref_type", "ref", "description"}
      [] type = "DeleteEvent" -> {"ref_type", "ref"}
      [] type = "WatchEvent" -> {"action"}
      [] type = "ForkEvent" -> {"forkee"}
      [] type = "ReleaseEvent" -> {"action", "release"}

\* GitHubClient._extract_event_payload: the key set built for each type.
ClientKeys(type) ==
    CASE type = "PushEvent" -> {"commits", "ref", "head", "size"}
      [] type = "IssuesEvent" ->
            {"action", "issue.number", "issue.title", "issue.state", "issue.url"}
      [] type = "PullRequestEvent" ->
            {"action", "pull_request.number", "pull_request.title",
             "pull_request.state", "pull_request.url"}
      [] type = "CreateEvent" -> {"ref_type", "ref", "description"}
      [] type = "DeleteEvent" -> {"ref_type", "ref"}
      [] type = "WatchEvent" -> {"action"}
      [] type = "ForkEvent" -> {"forkee.full_name", "forkee.url"}
      [] type = "ReleaseEvent" ->
            {"action", "release.tag_name", "release.name", "release.url"}

\* Variant: the failure is swallowed into an empty payload.
ExtractFailureEmpty(event) == Fields({})

\* What the except clause of _extract_event_payload does with a failure.
ExtractFailure(event) == ErrorPayload

\* GitHubClient._extract_event_payload
_extract_event_payload(event) ==
    IF event.type \in RecognizedTypes
    THEN IF FieldAccessRaises(event)
         THEN ExtractFailure(event)
         ELSE Fields(ClientKeys(event.type))
    ELSE \* `event.payload if event.payload else {}`
         IF event.payload.none \/ event.payload.has = {}
         THEN RawPayload(PayloadEmpty)
         ELSE RawPayload(event.payload)

\* The event types GitHubActionsServer._format_event_payload has a branch for.
ServerTypes ==
    {"PushEvent", "IssuesEvent", "PullRequestEvent", "CreateEvent",
     "DeleteEvent", "WatchEvent", "ForkEvent"}

ServerKeys(type) ==
    CASE type = "PushEvent" -> {"commits", "ref", "head"}
      [] type = "IssuesEvent" -> {"action", "issue_number", "issue_title"}
      [] type = "PullRequestEvent" -> {"action", "pr_number", "pr_title"}
      [] type = "CreateEvent" -> {"ref_type", "ref"}
      [] type = "DeleteEvent" -> {"ref_type", "ref"}
      [] type = "WatchEvent" -> {"action"}
      [] type = "ForkEvent" -> {"forkee"}

\* GitHubActionsServer._format_event_payload: it has no try/except, so a
\* failing field access leaves the function as an exception.
FormatRaises(event) == event.type \in ServerTypes /\ FieldAccessRaises(event)

_format_event_payload(event) ==
    IF event.type \in ServerTypes
    THEN Fields(ServerKeys(event.type))
    ELSE Fields({})

-----------------------------------------------------------------------------
(* Count-bounded event fetches: get_user_events, get_repository_events *)

\* An upstream event stream as one call sees it: looking the user or the
\* repository up may fail; else the stream yields `items` in order, and
\* pulling item number failAt (0: none) raises, as a failed page request does.
EventStreams(pool) ==
    {[lookupFails |-> TRUE, items |-> <<>>, failAt |-> 0]} \cup
    UNION {{[lookupFails |-> FALSE, items |-> s, failAt |-> f] : f \in 0..Len(s)} :
              s \in SeqsUpTo(pool, MaxEvents)}

\* An outcome of a client method: it raised, or returned `value`; `pulled`
\* counts the items it asked the upstream stream for.
Raised(n) == [raised |-> TRUE, value |-> <<>>, pulled |-> n]
Returned(v, n) == [raised |-> FALSE, value |-> v, pulled |-> n]

\* `if i >= limit: break`
LimitReached(i, limit) == i >= limit

\* for i, event in enumerate(events): if i >= limit: break; append(event)
\* `i` items have been consumed so far; the for statement pulls the next item
\* before the body tests the limit.
RECURSIVE TakeEvents(_, _, _, _)
TakeEvents(up, limit, i, event_list) ==
    IF i >= Len(up.items) THEN Returned(event_list, i)
    ELSE IF up.failAt = i + 1 THEN Raised(i + 1)
    ELSE IF LimitReached(i, limit) THEN Returned(event_list, i + 1)
    ELSE TakeEvents(up, limit, i + 1, Append(event_list, up.items[i + 1]))

\* GitHubClient.get_user_events: both except clauses log and re-raise.
get_user_events(up, limit) ==
    IF up.lookupFails THEN Raised(0) ELSE TakeEvents(up, limit, 0, <<>>)

\* GitHubClient.get_repository_events
get_repository_events(up, limit) ==
    IF up.lookupFails THEN Raised(0) ELSE TakeEvents(up, limit, 0, <<>>)

-----------------------------------------------------------------------------
(* Time, repositories and commits *)

\* Time is counted in days.  DefaultDays is the default lookback of
\* get_user_commits.
DefaultDays == 365
Now == DefaultDays + MaxDays + 1

\* A repository as upstream presents it: `commits` are the user's commits in
\* it, newest first; a commit query that fails raises after it has yielded
\* failAfter commits (-1: the query does not fail).
Commit(name, k, date) == [repository |-> name, sha |-> k, date |-> date]

\* repo.get_commits(author=username, since=since): upstream applies the
\* `since` filter.
UpstreamCommits(repo, since) == SelectSeq(repo.commits, LAMBDA c : c.date >= since)

\* The query on `repo` raises at some point of its iteration.
QueryFails(repo, since) ==
    /\ repo.failAfter >= 0
    /\ repo.failAfter <= Len(UpstreamCommits(repo, since))

\* commits.sort(key=date, reverse=True): a stable sort, newest first.  A
\* commit is placed behind every commit with a later date and behind the
\* commits of its own date that stood before it.
SortNewestFirst(commits) ==
    LET n == Len(commits)
        place == [i \in 1..n |->
                     Cardinality({j \in 1..n : commits[j].date > commits[i].date})
                     + Cardinality({j \in 1..i : commits[j].date = commits[i].date})]
    IN  [p \in 1..n |-> commits[CHOOSE i \in 1..n : place[i] = p]]

-----------------------------------------------------------------------------
(* Window-bounded fetch: get_user_activity *)

EmptyDict == [k \in {} |-> 0]

\* d[k] = d.get(k, 0) + 1
Incr(d, k) == IF k \in DOMAIN d THEN [d EXCEPT ![k] = @ + 1] ELSE d @@ (k :> 1)

\* Variant: the structure is kept between calls and still holds an event
\* counted by the call before.
KeptActivity(days, since) ==
    [period_days |-> days,
     since |-> since,
     total_events |-> 1,
     repositories_active |-> {"octocat/app"},
     event_types |-> ("PushEvent" :> 1),
     events |-> <<>>,
     commits |-> <<>>,
     issues |-> <<>>,
     pull_requests |-> <<>>]

\* The activity structure built at the start of every call.
NewActivity(days, since) ==
    [period_days |-> days,
     since |-> since,
     total_events |-> 0,
     repositories_active |-> {},
     event_types |-> EmptyDict,
     events |-> <<>>,
     commits |-> <<>>,
     issues |-> <<>>,
     pull_requests |-> <<>>]

\* Variant: the window start itself is excluded.
OutsideWindowInclusive(event, since) == event.created_at <= since

\* `if event.created_at.replace(tzinfo=None) < since: continue`
OutsideWindow(event, since) == event.created_at < since

ActivityEventEntry(event) ==
    [type |-> event.type,
     repo |-> event.repo,
     created_at |-> event.created_at,
     payload |-> _extract_event_payload(event)]

\* The body of the event loop for an event inside the window.
CountEvent(activity, event) ==
    [activity EXCEPT
        !.total_events = @ + 1,
        !.repositories_active = IF event.repo # None THEN @ \cup {event.repo} ELSE @,
        !.event_types = Incr(@, event.type),
        !.events = Append(@, ActivityEventEntry(event))]

\* for event in events: ...   (the whole stream is iterated)
RECURSIVE ActivityEvents(_, _, _)
ActivityEvents(up, i, activity) ==
    IF i >= Len(up.items) THEN [raised |-> FALSE, activity |-> activity]
    ELSE IF up.failAt = i + 1 THEN [raised |-> TRUE, activity |-> activity]
    ELSE IF OutsideWindow(up.items[i + 1], activity.since)
         THEN ActivityEvents(up, i + 1, activity)
         ELSE ActivityEvents(up, i + 1, CountEvent(activity, up.items[i + 1]))

\* `if repo.updated_at.replace(tzinfo=None) < since: continue`
SkipRepository(repo, since) == repo.updated_at < since

\* try: for commit in repo.get_commits(...): append  except: log.
\* The commits yielded before a failure stay in the list.
ActivityRepoCommits(repo, since) ==
    LET found == UpstreamCommits(repo, since) IN
    IF QueryFails(repo, since) THEN Take(found, repo.failAfter) ELSE found

RECURSIVE ActivityCommits(_, _, _)
ActivityCommits(repos, i, activity) ==
    IF i >= Len(repos) THEN activity
    ELSE IF SkipRepository(repos[i + 1], activity.since)
         THEN ActivityCommits(repos, i + 1, activity)
         ELSE ActivityCommits(repos, i + 1,
                 [activity EXCEPT
                     !.commits = @ \o ActivityRepoCommits(repos[i + 1], activity.since)])

\* The issue search: a failure is logged and leaves what was listed so far.
ActivityIssues(search, activity) ==
    LET listed == IF search.failAt = 0 THEN search.items
                  ELSE Take(search.items, search.failAt - 1) IN
    [activity EXCEPT
        !.issues = SelectSeq(listed, LAMBDA x : ~x.pull_request),
        !.pull_requests = SelectSeq(listed, LAMBDA x : x.pull_request)]

\* GitHubClient.get_user_activity.  `up` holds the user's event stream, the
\* repositories the user owns and the result of the issue search.
get_user_activity(up, days) ==
    IF up.events.lookupFails THEN Raised(0)
    ELSE LET since == Now - days
             ev == ActivityEvents(up.events, 0, NewActivity(days, since)) IN
         IF ev.raised THEN Raised(0)
         ELSE Returned(ActivityIssues(up.search,
                          ActivityCommits(up.repos, 0, ev.activity)), 0)

-----------------------------------------------------------------------------
(* Count-bounded commit fetch: get_user_commits *)

\* An absent or empty `since` argument.
NoSince == [given |-> FALSE, date |-> 0]

\* `if since: parse it, else: now - 365 days`
SinceDate(since) == IF since.given THEN since.date ELSE Now - DefaultDays

\* `if len(commits) >= limit: break`
CommitLimitReached(commits, limit) == Len(commits) >= limit

\* The inner loop over one repository's commits: j commits of it have been
\* consumed.  `raised` tells that the query failed; the except clause logs it.
RECURSIVE RepoCommits(_, _, _, _, _)
RepoCommits(repo, found, limit, j, commits) ==
    IF repo.failAfter = j THEN commits
    ELSE IF j >= Len(found) THEN commits
    ELSE LET more == Append(commits, found[j + 1]) IN
         IF CommitLimitReached(more, limit) THEN more
         ELSE RepoCommits(repo, found, limit, j + 1, more)

\* for repo in repos: try: inner loop except: log;  if len >= limit: break
RECURSIVE UserCommits(_, _, _, _, _)
UserCommits(repos, since, limit, i, commits) ==
    IF i >= Len(repos) THEN commits
    ELSE LET more == RepoCommits(repos[i + 1], UpstreamCommits(repos[i + 1], since),
                                 limit, 0, commits) IN
         IF CommitLimitReached(more, limit) THEN more
         ELSE UserCommits(repos, since, limit, i + 1, more)

\* Variant: the list is returned as collected.
TruncateNot(commits, limit) == commits

\* `return commits[:limit]`
Truncate(commits, limit) == Take(commits, limit)

\* GitHubClient.get_user_commits
get_user_commits(up, since, limit) ==
    IF up.lookupFails THEN Raised(0)
    ELSE Returned(Truncate(SortNewestFirst(
                     UserCommits(up.repos, SinceDate(since), limit, 0, <<>>)), limit), 0)

-----------------------------------------------------------------------------
(* Texts *)

UpperCase == "ABCDEFGHIJKLMNOPQRSTUVWXYZ"
LowerCase == "abcdefghijklmnopqrstuvwxyz"

CharAt(t, i) == SubSeq(t, i, i)

LowerChar(c) ==
    LET at == {i \in 1..Len(UpperCase) : CharAt(UpperCase, i) = c} IN
    IF at = {} THEN c ELSE CharAt(LowerCase, CHOOSE i \in at : TRUE)

\* str.lower()
RECURSIVE Lower(_)
Lower(t) ==
    IF Len(t) = 0 THEN t
    ELSE LowerChar(CharAt(t, 1)) \o Lower(SubSeq(t, 2, Len(t)))

\* '.' in filename
HasDot(filename) == Occurs(".", filename)

\* Variant: the segment after the first dot is taken.
FirstSegment(filename) ==
    LET dots == {i \in 1..Len(filename) : CharAt(filename, i) = "."} IN
    IF dots = {} THEN filename
    ELSE SubSeq(filename, (CHOOSE i \in dots : \A j \in dots : i <= j) + 1,
                Len(filename))

\* filename.split('.')[-1]
LastSegment(filename) ==
    LET dots == {i \in 1..Len(filename) : CharAt(filename, i) = "."} IN
    IF dots = {} THEN filename
    ELSE SubSeq(filename, (CHOOSE i \in dots : \A j \in dots : j <= i) + 1,
                Len(filename))

-----------------------------------------------------------------------------
(* Counting dicts: Python dicts from a key to a count, in insertion order *)

NoCounts == <<>>

KeysOf(d) == {d[i].key : i \in 1..Len(d)}

\* d.get(k, 0)
CountOf(d, k) ==
    IF k \in KeysOf(d) THEN d[CHOOSE i \in 1..Len(d) : d[i].key = k].count ELSE 0

\* d[k] = d.get(k, 0) + n: a new key goes to the end.
AddCount(d, k, n) ==
    IF k \in KeysOf(d)
    THEN [i \in 1..Len(d) |-> IF d[i].key = k
                              THEN [key |-> k, count |-> d[i].count + n]
                              ELSE d[i]]
    ELSE Append(d, [key |-> k, count |-> n])

-----------------------------------------------------------------------------
(* The commit classifier: _categorize_commit_message *)

\* The commit patterns of _categorize_commit_message, in table order.
commit_patterns ==
    <<[category |-> "feature", keywords |-> <<"feat", "feature", "add", "implement", "new">>],
      [category |-> "bugfix", keywords |-> <<"fix", "bug", "issue", "problem", "error">>],
      [category |-> "refactor", keywords |-> <<"refactor", "refactoring", "cleanup", "restructure">>],
      [category |-> "documentation", keywords |-> <<"docs", "documentation", "readme", "comment">>],
      [category |-> "test", keywords |-> <<"test", "testing", "spec", "unit test">>],
      [category |-> "style", keywords |-> <<"style", "formatting", "css", "ui", "design">>],
      [category |-> "performance", keywords |-> <<"performance", "optimize", "speed", "improve">>],
      [category |-> "security", keywords |-> <<"security", "vulnerability", "auth", "permission">>],
      [category |-> "dependency", keywords |-> <<"dependency", "package", "upgrade", "update">>],
      [category |-> "configuration", keywords |-> <<"config", "configuration", "setting", "env">>],
      [category |-> "deployment", keywords |-> <<"deploy", "deployment", "release", "build">>],
      [category |-> "database", keywords |-> <<"database", "migration", "schema", "sql">>],
      [category |-> "api", keywords |-> <<"api", "endpoint", "route", "service">>],
      [category |-> "ui", keywords |-> <<"ui", "frontend", "interface", "component">>]>>

\* Variant: the message is matched as written, without case folding.
FoldCaseNot(message) == message

\* message = message.lower()
FoldCase(message) == Lower(message)

\* any(keyword in message for keyword in keywords)
AnyKeywordIn(keywords, message) ==
    \E k \in 1..Len(keywords) : Occurs(keywords[k], message)

\* for category, keywords in patterns.items(): first match returns
RECURSIVE FirstCategory(_, _)
FirstCategory(i, message) ==
    IF i > Len(commit_patterns) THEN "other"
    ELSE IF AnyKeywordIn(commit_patterns[i].keywords, message)
         THEN commit_patterns[i].category
         ELSE FirstCategory(i + 1, message)

_categorize_commit_message(message) == FirstCategory(1, FoldCase(message))

-----------------------------------------------------------------------------
(* The sample texts the analysis reads *)

Join(a, b) == IF a = "" THEN b ELSE IF b = "" THEN a ELSE a \o " " \o b

RECURSIVE JoinAll(_)
JoinAll(words) ==
    IF words = <<>> THEN "" ELSE Join(words[1], JoinAll(Tail(words)))

\* Commit messages: up to MaxWords words, separated by spaces.
Words == {"Fix", "login", "bug", "add", "Build", "wip", "API"}
Messages == {JoinAll(w) : w \in SeqsUpTo(Words, MaxWords)}

\* Diff texts: up to MaxSnippets lines of code.
Snippets ==
    {"import pandas as pd;", "df = pd.DataFrame(rows);",
     "from flask import Flask;", "useState(0);", "setupTests();", "x = 1;"}
Patches == {JoinAll(s) : s \in SeqsUpTo(Snippets, MaxSnippets)}

File(filename, status, additions, deletions, patch) ==
    [filename |-> filename, status |-> status, additions |-> additions,
     deletions |-> deletions, patch |-> patch]

\* The commits the repositories of the tech stack analysis are filled with.
CommitSamples ==
    <<[message |-> "Fix login bug",
       files |-> <<File("src/app.py", "modified", 3, 1, "import pandas as pd;")>>],
      [message |-> "Add settings page",
       files |-> <<File("web/Page.JSX", "added", 5, 0, "useState(0);"),
                   File("Makefile", "modified", 1, 1, "")>>],
      [message |-> "wip", files |-> <<>>],
      [message |-> "Drop the old API",
       files |-> <<File("api/v1.py", "removed", 0, 4,
                        "from flask import Flask; import pandas as pd;")>>]>>

SampleMessages == {CommitSamples[i].message : i \in 1..Len(CommitSamples)}

-----------------------------------------------------------------------------
(* File analysis: _analyze_file_extension, _analyze_file_content *)

\* language_map: extension -> language, in table order.
language_map ==
    <<[ext |-> ".py", lang |-> "Python"],
      [ext |-> ".js", lang |-> "JavaScript"],
      [ext |-> ".jsx", lang |-> "JavaScript/React"],
      [ext |-> ".ts", lang |-> "TypeScript"],
      [ext |-> ".tsx", lang |-> "TypeScript/React"],
      [ext |-> ".java", lang |-> "Java"],
      [ext |-> ".cpp", lang |-> "C++"],
      [ext |-> ".c", lang |-> "C"],
      [ext |-> ".cs", lang |-> "C#"],
      [ext |-> ".php", lang |-> "PHP"],
      [ext |-> ".rb", lang |-> "Ruby"],
      [ext |-> ".go", lang |-> "Go"],
      [ext |-> ".rs", lang |-> "Rust"],
      [ext |-> ".swift", lang |-> "Swift"],
      [ext |-> ".kt", lang |-> "Kotlin"],
      [ext |-> ".scala", lang |-> "Scala"],
      [ext |-> ".r", lang |-> "R"],
      [ext |-> ".R", lang |-> "R"],
      [ext |-> ".sql", lang |-> "SQL"],
      [ext |-> ".html", lang |-> "HTML"],
      [ext |-> ".css", lang |-> "CSS"],
      [ext |-> ".scss", lang |-> "SCSS"],
      [ext |-> ".sass", lang |-> "Sass"],
      [ext |-> ".less", lang |-> "Less"],
      [ext |-> ".vue", lang |-> "Vue.js"],
      [ext |-> ".svelte", lang |-> "Svelte"],
      [ext |-> ".dart", lang |-> "Dart"],
      [ext |-> ".lua", lang |-> "Lua"],
      [ext |-> ".sh", lang |-> "Shell"],
      [ext |-> ".bash", lang |-> "Bash"],
      [ext |-> ".zsh", lang |-> "Zsh"],
      [ext |-> ".fish", lang |-> "Fish"],
      [ext |-> ".ps1", lang |-> "PowerShell"],
      [ext |-> ".yml", lang |-> "YAML"],
      [ext |-> ".yaml", lang |-> "YAML"],
      [ext |-> ".json", lang |-> "JSON"],
      [ext |-> ".xml", lang |-> "XML"],
      [ext |-> ".toml", lang |-> "TOML"],
      [ext |-> ".ini", lang |-> "INI"],
      [ext |-> ".cfg", lang |-> "Config"],
      [ext |-> ".md", lang |-> "Markdown"],
      [ext |-> ".dockerfile", lang |-> "Docker"],
      [ext |-> ".tf", lang |-> "Terraform"],
      [ext |-> ".hcl", lang |-> "HCL"]>>

\* `if ext in language_map: lang = language_map[ext]`
KnownExtension(ext) == \E i \in 1..Len(language_map) : language_map[i].ext = ext
LanguageOf(ext) ==
    language_map[CHOOSE i \in 1..Len(language_map) : language_map[i].ext = ext].lang

\* GitHubClient._analyze_file_extension: tallies the language of the
\* extension, when the table knows it, and the file type.
_analyze_file_extension(filename, analysis) ==
    LET ext == "." \o Lower(LastSegment(filename))
        tallied ==
            IF HasDot(filename) /\ KnownExtension(ext)
            THEN [analysis EXCEPT
                     !.programming_languages = AddCount(@, LanguageOf(ext), 1)]
            ELSE analysis
        file_type ==
            IF HasDot(filename) THEN Lower(LastSegment(filename))
            ELSE "no_extension"
    IN  [tallied EXCEPT !.file_types = AddCount(@, file_type, 1)]

\* tech_patterns: per category, each technology with its patterns, in
\* table order.
tech_patterns ==
    <<[category |-> "frameworks",
       techs |-> <<
        [name |-> "react", patterns |-> <<"react", "jsx", "usestate", "useeffect", "component">>],
        [name |-> "angular", patterns |-> <<"angular", "@angular", "ngmodule", "component">>],
        [name |-> "vue", patterns |-> <<"vue", "vuex", "vue-router">>],
        [name |-> "django", patterns |-> <<"django", "from django", "models.model">>],
        [name |-> "flask", patterns |-> <<"flask", "from flask", "app = flask">>],
        [name |-> "express", patterns |-> <<"express", "app.get", "app.post", "req.body">>],
        [name |-> "fastapi", patterns |-> <<"fastapi", "from fastapi", "@app.get">>],
        [name |-> "spring", patterns |-> <<"spring", "@controller", "@service", "@repository">>],
        [name |-> "rails", patterns |-> <<"rails", "activerecord", "controller">>],
        [name |-> "laravel", patterns |-> <<"laravel", "eloquent", "artisan">>],
        [name |-> "nextjs", patterns |-> <<"next", "getserversideprops", "getstatic">>],
        [name |-> "nuxt", patterns |-> <<"nuxt", "asyncdata", "nuxtjs">>],
        [name |-> "svelte", patterns |-> <<"svelte", "svelte/store">>],
        [name |-> "flutter", patterns |-> <<"flutter", "widget", "statefulwidget">>],
        [name |-> "tensorflow", patterns |-> <<"tensorflow", "keras", "tf.">>],
        [name |-> "pytorch", patterns |-> <<"torch", "pytorch", "nn.module">>],
        [name |-> "scikit-learn", patterns |-> <<"sklearn", "scikit-learn", "fit()", "predict()">>]>>],
      [category |-> "libraries",
       techs |-> <<
        [name |-> "axios", patterns |-> <<"axios", "axios.get", "axios.post">>],
        [name |-> "lodash", patterns |-> <<"lodash", "_.map", "_.filter">>],
        [name |-> "moment", patterns |-> <<"moment", "moment()">>],
        [name |-> "jquery", patterns |-> <<"jquery", "$(", "$.ajax">>],
        [name |-> "numpy", patterns |-> <<"numpy", "np.array", "import numpy">>],
        [name |-> "pandas", patterns |-> <<"pandas", "pd.dataframe", "import pandas">>],
        [name |-> "matplotlib", patterns |-> <<"matplotlib", "pyplot", "plt.plot">>],
        [name |-> "requests", patterns |-> <<"requests", "requests.get", "requests.post">>],
        [name |-> "beautifulsoup", patterns |-> <<"beautifulsoup", "bs4", "soup.find">>],
        [name |-> "selenium", patterns |-> <<"selenium", "webdriver", "driver.find">>],
        [name |-> "pytest", patterns |-> <<"pytest", "def test_", "assert">>],
        [name |-> "jest", patterns |-> <<"jest", "test(", "expect(">>],
        [name |-> "mocha", patterns |-> <<"mocha", "describe(", "it(">>],
        [name |-> "cypress", patterns |-> <<"cypress", "cy.visit", "cy.get">>],
        [name |-> "bootstrap", patterns |-> <<"bootstrap", "btn-primary", "container">>],
        [name |-> "tailwind", patterns |-> <<"tailwind", "bg-blue", "text-center">>],
        [name |-> "material-ui", patterns |-> <<"material-ui", "mui", "@mui/">>],
        [name |-> "styled-components", patterns |-> <<"styled-components", "styled.div">>]>>],
      [category |-> "tools",
       techs |-> <<
        [name |-> "webpack", patterns |-> <<"webpack", "webpack.config", "module.exports">>],
        [name |-> "vite", patterns |-> <<"vite", "vite.config", "import.meta">>],
        [name |-> "babel", patterns |-> <<"babel", ".babelrc", "babel.config">>],
        [name |-> "eslint", patterns |-> <<"eslint", ".eslintrc", "eslint-disable">>],
        [name |-> "prettier", patterns |-> <<"prettier", ".prettierrc", "prettier-ignore">>],
        [name |-> "typescript", patterns |-> <<"typescript", "interface", "type ">>],
        [name |-> "jest", patterns |-> <<"jest", "jest.config", "setupTests">>],
        [name |-> "docker", patterns |-> <<"docker", "dockerfile", "docker-compose">>],
        [name |-> "git", patterns |-> <<"git", ".gitignore", "git add">>],
        [name |-> "npm", patterns |-> <<"package.json", "npm install", "npm run">>],
        [name |-> "yarn", patterns |-> <<"yarn", "yarn.lock", "yarn add">>],
        [name |-> "poetry", patterns |-> <<"poetry", "pyproject.toml", "poetry add">>],
        [name |-> "pip", patterns |-> <<"requirements.txt", "pip install", "pip freeze">>],
        [name |-> "gradle", patterns |-> <<"gradle", "build.gradle", "gradlew">>],
        [name |-> "maven", patterns |-> <<"maven", "pom.xml", "mvn">>],
        [name |-> "makefile", patterns |-> <<"makefile", "make", "gcc">>]>>],
      [category |-> "databases",
       techs |-> <<
        [name |-> "postgresql", patterns |-> <<"postgresql", "psycopg2", "pg_dump">>],
        [name |-> "mysql", patterns |-> <<"mysql", "mysqldump", "pymysql">>],
        [name |-> "mongodb", patterns |-> <<"mongodb", "mongoose", "pymongo">>],
        [name |-> "redis", patterns |-> <<"redis", "redis.get", "redis.set">>],
        [name |-> "sqlite", patterns |-> <<"sqlite", "sqlite3", "db.sqlite">>],
        [name |-> "elasticsearch", patterns |-> <<"elasticsearch", "es.search", "elastic">>],
        [name |-> "cassandra", patterns |-> <<"cassandra", "cql", "cassandra-driver">>],
        [name |-> "dynamodb", patterns |-> <<"dynamodb", "boto3", "dynamodb.table">>]>>],
      [category |-> "cloud_services",
       techs |-> <<
        [name |-> "aws", patterns |-> <<"aws", "boto3", "s3.bucket", "lambda", "ec2">>],
        [name |-> "gcp", patterns |-> <<"gcp", "google-cloud", "bigquery", "datastore">>],
        [name |-> "azure", patterns |-> <<"azure", "azure-storage", "azure-functions">>],
        [name |-> "heroku", patterns |-> <<"heroku", "procfile", "heroku.yml">>],
        [name |-> "vercel", patterns |-> <<"vercel", "vercel.json", "now.json">>],
        [name |-> "netlify", patterns |-> <<"netlify", "netlify.toml", "_redirects">>],
        [name |-> "firebase", patterns |-> <<"firebase", "firestore", "firebase.json">>],
        [name |-> "cloudflare", patterns |-> <<"cloudflare", "workers", "wrangler">>]>>]>>

\* tech_patterns as the nested loops visit it: one row per technology.
RECURSIVE TechRowsFrom(_)
TechRowsFrom(i) ==
    IF i > Len(tech_patterns) THEN <<>>
    ELSE LET c == tech_patterns[i] IN
         [j \in 1..Len(c.techs) |->
             [category |-> c.category, name |-> c.techs[j].name,
              patterns |-> c.techs[j].patterns]]
         \o TechRowsFrom(i + 1)

TechRows == TechRowsFrom(1)

\* Variant: every matching pattern counts, the loop has no `break`.
MentionsEach(patterns, patch_lower) ==
    Cardinality({k \in 1..Len(patterns) : Occurs(patterns[k], patch_lower)})

\* for pattern in patterns: if pattern in patch_lower: count once; break
Mentions(patterns, patch_lower) ==
    IF \E k \in 1..Len(patterns) : Occurs(patterns[k], patch_lower) THEN 1 ELSE 0

\* The technologies one patch raises, in table order, with the increment.
TechHits(patch) ==
    LET patch_lower == Lower(patch) IN
    SelectSeq([r \in 1..Len(TechRows) |->
                  [category |-> TechRows[r].category, name |-> TechRows[r].name,
                   n |-> Mentions(TechRows[r].patterns, patch_lower)]],
              LAMBDA h : h.n > 0)

\* The scan of every sample diff text, evaluated once.
TechHitsOfSample == [p \in Patches |-> TechHits(p)]

RECURSIVE RaiseTechs(_, _, _)
RaiseTechs(hits, k, tech_stack) ==
    IF k > Len(hits) THEN tech_stack
    ELSE RaiseTechs(hits, k + 1,
            [tech_stack EXCEPT
                ![hits[k].category] = AddCount(@, hits[k].name, hits[k].n)])

\* GitHubClient._analyze_file_content; an absent patch is the empty text.
_analyze_file_content(patch, analysis) ==
    IF patch = "" THEN analysis
    ELSE [analysis EXCEPT
             !.tech_stack =
                 RaiseTechs(IF patch \in Patches THEN TechHitsOfSample[patch]
                            ELSE TechHits(patch), 1, @)]

-----------------------------------------------------------------------------
(* The tech stack analysis: get_user_tech_stack *)

TechCategories == {"frameworks", "libraries", "tools", "databases", "cloud_services"}

\* The analysis structure built at the start of every call.  `optional`
\* holds the keys that _calculate_tech_stack_stats adds.
NewAnalysis(days, since) ==
    [days |-> days,
     since |-> since,
     commits_analyzed |-> 0,
     programming_languages |-> NoCounts,
     tech_stack |-> [c \in TechCategories |-> NoCounts],
     file_types |-> NoCounts,
     change_patterns |->
         [additions |-> 0, deletions |-> 0, modifications |-> 0,
          new_files |-> 0, deleted_files |-> 0],
     total_commits |-> 0,
     repos_contributed |-> {},
     change_descriptions |-> <<>>,
     optional |-> {},
     top_languages |-> <<>>,
     top |-> [c \in TechCategories |-> <<>>],
     change_types |-> <<>>]

\* commit_msg = commit.commit.message.lower()
\* change_desc = self._categorize_commit_message(commit_msg)
Describe(message) == _categorize_commit_message(Lower(message))

\* The description of every sample commit message, evaluated once.
DescriptionOfSample == [m \in SampleMessages |-> Describe(m)]

ChangeDescription(message) ==
    IF message \in SampleMessages THEN DescriptionOfSample[message]
    ELSE Describe(message)

\* Variant: a file without diff text is passed over.
AnalyzeFileWithPatch(file, analysis) ==
    IF file.patch = "" THEN analysis
    ELSE _analyze_file_content(file.patch,
             _analyze_file_extension(file.filename, analysis))

\* The body of `for file in files`.
AnalyzeFile(file, analysis) ==
    LET cp == analysis.change_patterns
        counted ==
            [analysis EXCEPT !.change_patterns =
                [cp EXCEPT
                    !.new_files = IF file.status = "added" THEN @ + 1 ELSE @,
                    !.deleted_files = IF file.status = "removed" THEN @ + 1 ELSE @,
                    !.modifications = IF file.status = "modified" THEN @ + 1 ELSE @,
                    !.additions = @ + file.additions,
                    !.deletions = @ + file.deletions]]
    IN  _analyze_file_content(file.patch, _analyze_file_extension(file.filename, counted))

RECURSIVE AnalyzeFiles(_, _, _)
AnalyzeFiles(files, k, analysis) ==
    IF k > Len(files) THEN analysis
    ELSE AnalyzeFiles(files, k + 1, AnalyzeFile(files[k], analysis))

\* Building commit_list: j commits of the query have been listed.  The query
\* failing while it is listed drops the whole repository (`continue`).
RECURSIVE ListCommits(_, _, _, _, _)
ListCommits(repo, found, room, j, commit_list) ==
    IF repo.failAfter = j THEN [raised |-> TRUE, list |-> <<>>]
    ELSE IF j >= Len(found) THEN [raised |-> FALSE, list |-> commit_list]
    ELSE IF Len(commit_list) >= room THEN [raised |-> FALSE, list |-> commit_list]
    ELSE ListCommits(repo, found, room, j + 1, Append(commit_list, found[j + 1]))

\* The loop over commit_list.  st = [analysis, commits_analyzed].  Reading the
\* message of a commit may raise: the handler around the repository catches
\* it and the rest of the repository is left out.  Reading its files may
\* raise: the handler around the files catches it and the commit is counted.
RECURSIVE AnalyzeCommits(_, _, _, _, _)
AnalyzeCommits(repo, commit_list, k, limit, st) ==
    IF k > Len(commit_list) THEN st
    ELSE IF st.commits_analyzed >= limit THEN st
    ELSE LET commit == commit_list[k]
             entered ==
                 [st.analysis EXCEPT
                     !.total_commits = @ + 1,
                     !.repos_contributed = @ \cup {repo.full_name}]
             described ==
                 [entered EXCEPT
                     !.change_descriptions =
                         Append(@, ChangeDescription(commit.message))]
             analysed ==
                 IF commit.raises = "files" THEN described
                 ELSE AnalyzeFiles(commit.files, 1, described)
         IN  IF commit.raises = "message"
             THEN [st EXCEPT !.analysis = entered]
             ELSE AnalyzeCommits(repo, commit_list, k + 1, limit,
                     [analysis |-> analysed,
                      commits_analyzed |-> st.commits_analyzed + 1])

\* Variant: a failing commit query ends the loop over the repositories.
RepoFailureEndsLoop(listing) == listing.raised

\* A failing commit query is logged and the loop goes on.
RepoFailureStops(listing) == FALSE

\* for repo in repos: if commits_analyzed >= limit: break; try: ... except: log
RECURSIVE AnalyzeRepos(_, _, _, _, _)
AnalyzeRepos(repos, since, limit, i, st) ==
    IF i >= Len(repos) THEN st
    ELSE IF st.commits_analyzed >= limit THEN st
    ELSE LET repo == repos[i + 1]
             listing == ListCommits(repo, UpstreamCommits(repo, since),
                                    limit - st.commits_analyzed, 0, <<>>)
         IN  IF RepoFailureStops(listing) THEN st
             ELSE AnalyzeRepos(repos, since, limit, i + 1,
                     IF listing.raised THEN st
                     ELSE AnalyzeCommits(repo, listing.list, 1, limit, st))

RECURSIVE InsertByCount(_, _)
\* Variant: an entry goes before the entries of equal count.
InsertBeforeEqual(sorted, e) ==
    IF sorted = <<>> THEN <<e>>
    ELSE IF Head(sorted).count > e.count
         THEN <<Head(sorted)>> \o InsertByCount(Tail(sorted), e)
         ELSE <<e>> \o sorted

\* sorted(d.items(), key=count, reverse=True): stable, larger counts first.
InsertByCount(sorted, e) ==
    IF sorted = <<>> THEN <<e>>
    ELSE IF Head(sorted).count >= e.count
         THEN <<Head(sorted)>> \o InsertByCount(Tail(sorted), e)
         ELSE <<e>> \o sorted

RECURSIVE SortByCount(_)
SortByCount(d) ==
    IF d = <<>> THEN <<>>
    ELSE InsertByCount(SortByCount(SubSeq(d, 1, Len(d) - 1)), d[Len(d)])

\* round((count / total) * 100, 1), in tenths of a percent; a tie goes to the
\* even tenth.  This is the value Python computes for every total below 80;
\* from 80 on the floating-point product can fall just below a tie.
PercentTenths(count, total) ==
    LET q == (count * 1000) \div total
        r == (count * 1000) % total
    IN  IF 2 * r < total THEN q
        ELSE IF 2 * r > total THEN q + 1
        ELSE IF q % 2 = 0 THEN q ELSE q + 1

RECURSIVE SumCounts(_)
SumCounts(d) == IF d = <<>> THEN 0 ELSE Head(d).count + SumCounts(Tail(d))

WithPercentage(d, total) ==
    [i \in 1..Len(d) |->
        [key |-> d[i].key, count |-> d[i].count,
         percentage |-> PercentTenths(d[i].count, total)]]

TopLanguages == 10
TopTechs == 5

\* for desc in change_descriptions:
\*     change_counts[desc] = change_counts.get(desc, 0) + 1
\* Every label is counted as often as it occurs; a new key goes to the end
\* at its first occurrence.
CountLabels(labels, change_counts) ==
    LET Times(k) == Cardinality({i \in 1..Len(labels) : labels[i] = k})
        firsts == {i \in 1..Len(labels) :
                      /\ labels[i] \notin KeysOf(change_counts)
                      /\ \A j \in 1..(i - 1) : labels[j] # labels[i]}
        Nth(n) == CHOOSE i \in firsts : Cardinality({j \in firsts : j < i}) = n - 1
    IN  [i \in 1..Len(change_counts) |->
            [change_counts[i] EXCEPT !.count = @ + Times(change_counts[i].key)]]
        \o [n \in 1..Cardinality(firsts) |->
               [key |-> labels[Nth(n)], count |-> Times(labels[Nth(n)])]]

\* GitHubClient._calculate_tech_stack_stats
_calculate_tech_stack_stats(analysis) ==
    LET langs == analysis.programming_languages
        labels == analysis.change_descriptions
        used == {c \in TechCategories : analysis.tech_stack[c] # NoCounts}
    IN  [analysis EXCEPT
            !.optional =
                (IF langs # NoCounts THEN {"top_languages"} ELSE {})
                \cup {"top_" \o c : c \in used}
                \cup (IF labels # <<>> THEN {"change_types"} ELSE {}),
            !.top_languages =
                Take(WithPercentage(SortByCount(langs), SumCounts(langs)),
                     TopLanguages),
            !.top = [c \in TechCategories |->
                        Take(SortByCount(analysis.tech_stack[c]), TopTechs)],
            !.change_types =
                WithPercentage(SortByCount(CountLabels(labels, NoCounts)),
                               Len(labels))]

\* GitHubClient.get_user_tech_stack.  repos_contributed stays a set: the
\* order of list(set) is not fixed.
get_user_tech_stack(up, days, limit) ==
    IF up.lookupFails THEN Raised(0)
    ELSE LET since == Now - days
             st == AnalyzeRepos(up.repos, since, limit, 0,
                      [analysis |-> NewAnalysis(days, since),
                       commits_analyzed |-> 0])
         IN  Returned(_calculate_tech_stack_stats(
                 [st.analysis EXCEPT !.commits_analyzed = st.commits_analyzed]), 0)

-----------------------------------------------------------------------------
(* The work experience synthesis: role, responsibilities, achievements,    *)
(* methodologies and metrics derived from a tech stack analysis            *)

\* The names of a derived list, lower-cased.
LowerNamesOf(list) == {Lower(list[i].key) : i \in 1..Len(list)}

devops_tools ==
    {"docker", "kubernetes", "terraform", "ansible", "jenkins", "github-actions",
     "ci/cd"}
frontend_frameworks == {"react", "vue", "angular", "nextjs", "svelte"}
\* Variant: rust is left to the rule of its own.
backend_languages_without_rust ==
    {"python", "java", "go", "c++", "c#", "php", "ruby"}

backend_languages == {"python", "java", "go", "rust", "c++", "c#", "php", "ruby"}
backend_frameworks == {"django", "flask", "spring", "express", "fastapi"}
data_tools ==
    {"pandas", "numpy", "matplotlib", "tensorflow", "pytorch", "scikit-learn"}
mobile_languages == {"swift", "kotlin", "dart"}
mobile_frameworks == {"flutter", "react-native"}

\* if has_devops and (has_backend or has_frontend)
DevOpsRule(has_devops, has_backend, has_frontend) ==
    has_devops /\ (has_backend \/ has_frontend)

\* GitHubClient._infer_role_title; `commits` is not read.
_infer_role_title(tech_stack, commits) ==
    LET languages == tech_stack.top_languages
        frameworks == LowerNamesOf(tech_stack.top["frameworks"])
        tools == LowerNamesOf(tech_stack.top["tools"])
        primary_lang == IF languages # <<>> THEN Lower(languages[1].key) ELSE ""
        has_devops == tools \cap devops_tools # {}
        has_frontend == frameworks \cap frontend_frameworks # {}
        has_backend ==
            primary_lang \in backend_languages
            \/ frameworks \cap backend_frameworks # {}
        has_data_science == tools \cap data_tools # {}
        has_mobile ==
            primary_lang \in mobile_languages
            \/ frameworks \cap mobile_frameworks # {}
    IN  IF DevOpsRule(has_devops, has_backend, has_frontend) THEN "DevOps Engineer"
        ELSE IF has_data_science
             THEN (IF primary_lang = "python" THEN "Data Scientist"
                   ELSE "Data Engineer")
        ELSE IF has_frontend /\ has_backend THEN "Full Stack Developer"
        ELSE IF has_frontend THEN "Frontend Developer"
        ELSE IF has_backend
             THEN (IF primary_lang = "rust" THEN "Systems Engineer"
                   ELSE IF primary_lang \in {"go", "c++", "c"} THEN "Backend Engineer"
                   ELSE "Software Engineer")
        ELSE IF has_mobile THEN "Mobile Developer"
        ELSE IF primary_lang = "rust" THEN "Systems Programmer"
        ELSE IF primary_lang \in {"python", "javascript", "typescript"}
             THEN "Software Developer"
        ELSE "Software Engineer"

\* items.append(sentence) under a condition
AppendIf(items, condition, sentence) ==
    IF condition THEN Append(items, sentence) ELSE items

\* Variant: the generic items are added to an empty list only.
ExtendWhenEmpty(items, generic) ==
    IF items = <<>> THEN items \o generic ELSE items

\* if len(items) < 3: items.extend(generic)
ExtendWhenShort(items, generic) ==
    IF Len(items) < 3 THEN items \o generic ELSE items

\* next((ct[field] for ct in change_types if ct["type"] == label), 0)
PercentageOf(change_types, label) ==
    IF label \in KeysOf(change_types)
    THEN change_types[CHOOSE i \in 1..Len(change_types) :
                         change_types[i].key = label].percentage
    ELSE 0

GenericResponsibilities ==
    <<"Collaborated with cross-functional teams to deliver software solutions",
      "Participated in code reviews and maintained coding standards",
      "Documented technical processes and system architecture">>

MaxResponsibilities == 6

\* The sentences of _generate_responsibilities whose signal is met, in the
\* order of the method.  Percentages are counted in tenths.
SignalledResponsibilities(tech_stack) ==
    LET change_types == tech_stack.change_types
        languages == LowerNamesOf(Take(tech_stack.top_languages, 5))
        frameworks == LowerNamesOf(Take(tech_stack.top["frameworks"], 5))
        tools == LowerNamesOf(Take(tech_stack.top["tools"], 5))
        r1 == AppendIf(<<>>, "docker" \in tools,
                 "Containerized applications using Docker for consistent deployment environments")
        r2 == AppendIf(r1, "makefile" \in tools,
                 "Developed and maintained build automation scripts and CI/CD pipelines")
        r3 == AppendIf(r2, PercentageOf(change_types, "feature") > 300,
                 "Led feature development and implementation of new functionalities")
        r4 == AppendIf(r3, PercentageOf(change_types, "bugfix") > 250,
                 "Maintained code quality through systematic bug fixes and debugging")
        r5 == AppendIf(r4, "refactor" \in KeysOf(change_types),
                 "Refactored legacy code to improve performance and maintainability")
        r6 == AppendIf(r5, "react" \in frameworks,
                 "Developed responsive user interfaces using React and modern JavaScript")
        r7 == AppendIf(r6, "rust" \in languages,
                 "Built high-performance systems and tools using Rust programming language")
        r8 == AppendIf(r7, "python" \in languages,
                 "Developed backend services and automation scripts in Python")
    IN  AppendIf(r8, "typescript" \in tools \cup languages,
                 "Implemented type-safe applications using TypeScript")

\* GitHubClient._generate_responsibilities; `commits` is not read.
_generate_responsibilities(tech_stack, commits) ==
    Take(ExtendWhenShort(SignalledResponsibilities(tech_stack),
                         GenericResponsibilities),
         MaxResponsibilities)

\* Variant: the fraction is cut off.
RoundDown(num, den) == num \div den

\* round(x) of Python for x = num / den: to the nearest integer, a tie to
\* the even neighbour.
Round(num, den) ==
    LET q == num \div den
        r == num % den
    IN  IF 2 * r < den THEN q
        ELSE IF 2 * r > den THEN q + 1
        ELSE IF q % 2 = 0 THEN q ELSE q + 1

GenericAchievements ==
    <<"Successfully delivered multiple software projects on schedule",
      "Contributed to open source projects and community development",
      "Improved code quality through systematic refactoring initiatives">>

MaxAchievements == 5

\* The sentences of _generate_achievements whose signal is met.
SignalledAchievements(tech_stack) ==
    LET total_commits == tech_stack.commits_analyzed
        repos_count == Cardinality(tech_stack.repos_contributed)
        languages_count == Len(tech_stack.programming_languages)
        change_types == tech_stack.change_types
        test_commits == CountOf(change_types, "test")
        test_percentage ==
            IF total_commits > 0 THEN Round(test_commits * 100, total_commits) ELSE 0
        tools == LowerNamesOf(tech_stack.top["tools"])
        a1 == AppendIf(<<>>, total_commits > 100,
                 "Delivered " \o ToString(total_commits) \o "+ commits across "
                 \o ToString(repos_count) \o " repositories")
        a2 == AppendIf(a1, languages_count >= 3,
                 "Demonstrated proficiency in " \o ToString(languages_count)
                 \o " programming languages")
        a3 == AppendIf(a2, test_commits > 5,
                 "Maintained " \o ToString(test_percentage)
                 \o "% test coverage through comprehensive testing")
        a4 == AppendIf(a3, CountOf(change_types, "performance") > 2,
                 "Optimized application performance through targeted improvements")
        a5 == AppendIf(a4, CountOf(change_types, "documentation") > 3,
                 "Enhanced project documentation and developer experience")
    IN  AppendIf(a5, tools \cap {"docker", "makefile", "git"} # {},
                 "Implemented automated build and deployment processes")

\* GitHubClient._generate_achievements; `commits` and `activity` are not
\* read.
_generate_achievements(tech_stack, commits, activity) ==
    Take(ExtendWhenShort(SignalledAchievements(tech_stack), GenericAchievements),
         MaxAchievements)

DefaultMethodologies == {"Agile Development", "Version Control"}

MaxMethodologies == 5

\* The methodologies of _infer_methodologies whose signal is met.
SignalledMethodologies(tech_stack, commits) ==
    LET tools == LowerNamesOf(tech_stack.top["tools"]) IN
    (IF tools \cap {"docker", "makefile", "git", "github-actions"} # {}
     THEN {"CI/CD"} ELSE {})
    \cup (IF tools \cap {"pytest", "jest", "mocha"} # {}
          THEN {"Test-Driven Development"} ELSE {})
    \cup (IF Len(commits) > 50 THEN {"Agile Development"} ELSE {})
    \cup (IF "docker" \in tools THEN {"DevOps"} ELSE {})
    \cup (IF "git" \in tools THEN {"Version Control"} ELSE {})

\* Every order of a set of items, as lists.
Orders(items) ==
    {list \in [1..Cardinality(items) -> items] :
        \A i, j \in 1..Cardinality(items) : i # j => list[i] # list[j]}

\* GitHubClient._infer_methodologies: the lists the method may return.
\* list(set(...)) fixes no order, so every order of the set is a result, cut
\* to its first 5 items.
_infer_methodologies(tech_stack, commits) ==
    LET signalled == SignalledMethodologies(tech_stack, commits)
        methodologies == IF signalled = {} THEN DefaultMethodologies ELSE signalled
    IN  {Take(list, MaxMethodologies) : list \in Orders(methodologies)}

\* len([e for e in events if e.get("type") == type])
CountOfType(events, type) ==
    Cardinality({i \in 1..Len(events) : events[i].type = type})

\* GitHubClient._calculate_experience_metrics; `tech_stack` is not read.
_calculate_experience_metrics(commits, activity, tech_stack) ==
    LET events == activity.events
        total_commits == Len(commits)
        estimated_prs_opened == CountOfType(events, "PullRequestEvent")
    IN  [total_commits |-> total_commits,
         prs_opened |-> estimated_prs_opened,
         prs_merged |-> Round(estimated_prs_opened * 8, 10),
         issues_opened |-> CountOfType(events, "IssuesEvent"),
         code_reviews |-> Round(total_commits, 3)]

-----------------------------------------------------------------------------
(* The work experience synthesis: collaboration, linked artifacts, summary *)

\* `'/' in repo`
HasSlash(name) == Occurs("/", name)

\* name.split('/')[-1]
AfterLastSlash(name) ==
    LET slashes == {i \in 1..Len(name) : CharAt(name, i) = "/"} IN
    IF slashes = {} THEN name
    ELSE SubSeq(name, (CHOOSE i \in slashes : \A j \in slashes : j <= i) + 1,
                Len(name))

\* name.split('/')[0]
BeforeFirstSlash(name) ==
    LET slashes == {i \in 1..Len(name) : CharAt(name, i) = "/"} IN
    IF slashes = {} THEN name
    ELSE SubSeq(name, 1, (CHOOSE i \in slashes : \A j \in slashes : i <= j) - 1)

\* The comprehension of org_repos evaluates `commits[0].author.login` for
\* every repository name that holds a '/'.  The author of a commit that is
\* linked to no account is None, and None has no login.
LoginReadRaises(commits, repos_contributed) ==
    /\ commits # <<>>
    /\ commits[1].author = None
    /\ \E i \in 1..Len(repos_contributed) : HasSlash(repos_contributed[i])

\* GitHubClient._analyze_collaboration
_analyze_collaboration(commits, repos_contributed) ==
    IF LoginReadRaises(commits, repos_contributed) THEN Raised(0)
    ELSE Returned([co_contributors |-> <<>>,
                   cross_team |-> Len(repos_contributed) > 1,
                   mentorship |-> Len(repos_contributed) > 3], 0)

DemoKeywords == {"demo", "example", "sample", "showcase"}

\* GitHubClient._generate_linked_artifacts; `user` and `commits` are not
\* read.
_generate_linked_artifacts(primary_repo, user, commits) ==
    IF primary_repo = None \/ primary_repo = ""
    THEN [demo_url |-> None, docs_url |-> None, release_notes |-> None]
    ELSE LET repo_name == Lower(AfterLastSlash(primary_repo)) IN
         [demo_url |->
             IF \E keyword \in DemoKeywords : Occurs(keyword, repo_name)
             THEN "https://" \o AfterLastSlash(primary_repo) \o ".netlify.app"
             ELSE None,
          docs_url |-> "https://github.com/" \o primary_repo \o "#readme",
          release_notes |-> "https://github.com/" \o primary_repo \o "/releases"]

\* ", ".join(items)
RECURSIVE JoinComma(_)
JoinComma(items) ==
    IF items = <<>> THEN ""
    ELSE IF Len(items) = 1 THEN items[1]
    ELSE items[1] \o ", " \o JoinComma(Tail(items))

SummaryTechnologies == 5

Closing ==
    ". Passionate about delivering high-quality software solutions and contributing to open source projects."

\* GitHubClient._generate_linkedin_summary
_generate_linkedin_summary(role_title, technologies, achievements, organization) ==
    LET tech_str == JoinComma(Take(technologies, SummaryTechnologies)) IN
    (IF organization = None \/ organization = ""
     THEN "Experienced " \o role_title
     ELSE role_title \o " with experience at " \o organization)
    \o (IF technologies # <<>> THEN "specializing in " \o tech_str ELSE "")
    \o (IF achievements # <<>> THEN ". " \o achievements[1] ELSE "")
    \o (IF Len(achievements) > 1 THEN " " \o achievements[2] ELSE "")
    \o Closing

-----------------------------------------------------------------------------
(* The work experience profile: generate_work_experience *)

\* The limits generate_work_experience fetches the analysis and the commit
\* list with.
TechStackLimit == 200
CommitListLimit == 100

\* The number of languages and tools listed in the profile.
ListedTechnologies == 10

\* text.replace('/', '_')
RECURSIVE ReplaceSlash(_)
ReplaceSlash(t) ==
    IF Len(t) = 0 THEN t
    ELSE (IF CharAt(t, 1) = "/" THEN "_" ELSE CharAt(t, 1))
         \o ReplaceSlash(SubSeq(t, 2, Len(t)))

\* An optional text argument is given: neither None nor empty.
Given(text) == text # None /\ text # ""

\* min(commit_dates).strftime(...), max(commit_dates).strftime(...): the
\* date as text; None for a user without commits.
DateOf(commits, first) ==
    LET dates == {commits[i].date : i \in 1..Len(commits)} IN
    IF dates = {} THEN None
    ELSE IF first THEN ToString(CHOOSE d \in dates : \A e \in dates : d <= e)
    ELSE ToString(CHOOSE d \in dates : \A e \in dates : e <= d)

\* The experience object built from what was gathered and inferred.
Experience(username, primary_repo, organization, tech_stack, commits, activity, methodologies, repos_contributed) ==
    LET role_title == _infer_role_title(tech_stack, commits)
        start_date == DateOf(commits, TRUE)
        end_date == DateOf(commits, FALSE)
        achievements == _generate_achievements(tech_stack, commits, activity)
        technologies ==
            [i \in 1..Min(ListedTechnologies, Len(tech_stack.top_languages)) |->
                tech_stack.top_languages[i].key]
        short_name ==
            IF primary_repo # None /\ HasSlash(primary_repo)
            THEN AfterLastSlash(primary_repo) ELSE primary_repo
    IN  [platform |-> "github",
         provider_username |-> username,
         provider_profile_url |-> "https://github.com/" \o username,
         repo_name |-> short_name,
         repo_url |-> IF Given(primary_repo)
                      THEN "https://github.com/" \o primary_repo ELSE None,
         organization |-> organization,
         role_title_inferred |-> role_title,
         team_or_project |-> IF Given(primary_repo) /\ HasSlash(primary_repo)
                             THEN AfterLastSlash(primary_repo) ELSE "Open Source",
         start_date |-> start_date,
         end_date |-> end_date,
         technologies |-> technologies,
         tools |-> [i \in 1..Min(ListedTechnologies, Len(tech_stack.top["tools"])) |->
                       tech_stack.top["tools"][i].key],
         methodologies |-> methodologies,
         responsibilities |-> _generate_responsibilities(tech_stack, commits),
         key_achievements |-> achievements,
         metrics |-> _calculate_experience_metrics(commits, activity, tech_stack),
         collaboration |-> _analyze_collaboration(commits, repos_contributed).value,
         linked_artifacts |-> _generate_linked_artifacts(primary_repo, username, commits),
         summary_for_linkedin |->
             _generate_linkedin_summary(role_title, technologies, achievements,
                                        organization),
         vector_embedding_id |->
             IF Given(username) /\ Given(primary_repo)
                   /\ start_date # None /\ end_date # None
             THEN ReplaceSlash(username \o "_" \o primary_repo \o "_"
                               \o start_date \o "_" \o end_date)
             ELSE username \o "_github_profile"]

\* Variant: the commit list is fetched for the window of `days`.
FetchedCommitsOfWindow(up, days) ==
    get_user_commits(up, [given |-> TRUE, date |-> Now - days], CommitListLimit)

\* `await self.get_user_commits(username, None, 100)`: no `since`, whatever
\* `days` is.
FetchedCommits(up, days) == get_user_commits(up, NoSince, CommitListLimit)

\* list(repos_contributed) with `first` as its first item.  The list made of
\* the set has no fixed order; the synthesis reads its first item, its length
\* and its members, so one list per first item stands for every order.
ContributedList(up, contributed, first) ==
    IF first = None THEN <<>>
    ELSE <<first>> \o SelectSeq([i \in 1..Len(up.repos) |-> up.repos[i].full_name],
                                LAMBDA name : name \in contributed /\ name # first)

\* GitHubClient.generate_work_experience: the outcomes the method may have.
\* `up` holds what upstream answers to the three fetches.  The list made of
\* the set of repositories and the list made of the set of methodologies
\* have no fixed order, so every order is an outcome.  An exception of any
\* step is logged and raised again.
generate_work_experience(up, username, repo_name, organization, days) ==
    LET tech_stack == get_user_tech_stack(up, days, TechStackLimit)
        commits == FetchedCommits(up, days)
        activity == get_user_activity(up, days)
    IN  IF tech_stack.raised \/ commits.raised \/ activity.raised \/ up.lookupFails
        THEN {Raised(0)}
        ELSE {LET repos_contributed ==
                      ContributedList(up, tech_stack.value.repos_contributed, first)
                  primary_repo ==
                      IF Given(repo_name) THEN repo_name
                      ELSE IF repos_contributed = <<>> THEN None
                      ELSE repos_contributed[1]
                  inferred_organization ==
                      IF ~Given(organization) /\ Given(primary_repo)
                      THEN IF HasSlash(primary_repo)
                           THEN BeforeFirstSlash(primary_repo) ELSE username
                      ELSE organization
              IN  IF _analyze_collaboration(commits.value, repos_contributed).raised
                  THEN Raised(0)
                  ELSE Returned(
                         Experience(username, primary_repo, inferred_organization,
                                    tech_stack.value, commits.value, activity.value,
                                    methodologies, repos_contributed), 0) :
                first \in (IF tech_stack.value.repos_contributed = {} THEN {None}
                            ELSE tech_stack.value.repos_contributed),
                methodologies \in _infer_methodologies(tech_stack.value, commits.value)}

-----------------------------------------------------------------------------
(* The tool handlers of the server *)

\* What a tool handler hands back: one text item, either the JSON of `body`
\* or an error message; `client` keeps the outcome of the client call made.
JsonText(body, r) == [kind |-> "json", body |-> body, client |-> r]
\* Variant: the exception leaves the handler instead.
Reraise(r) == [kind |-> "raised", body |-> <<>>, client |-> r]

ErrorText(r) == [kind |-> "error", body |-> <<>>, client |-> r]

UserEventEntry(event) ==
    [type |-> event.type,
     actor |-> IF event.actor = None THEN "Unknown" ELSE event.actor,
     repo |-> IF event.repo = None THEN "Unknown" ELSE event.repo,
     created_at |-> event.created_at,
     payload |-> _format_event_payload(event)]

RepositoryEventEntry(event) ==
    [type |-> event.type,
     actor |-> IF event.actor = None THEN "Unknown" ELSE event.actor,
     created_at |-> event.created_at,
     payload |-> _format_event_payload(event)]

\* GitHubActionsServer._get_user_events: the client call and the formatting
\* loop are inside one try; `except Exception` returns the error text.
_get_user_events(up, limit) ==
    LET r == get_user_events(up, limit) IN
    IF r.raised THEN ErrorText(r)
    ELSE IF \E i \in 1..Len(r.value) : FormatRaises(r.value[i]) THEN ErrorText(r)
    ELSE JsonText([i \in 1..Len(r.value) |-> UserEventEntry(r.value[i])], r)

\* GitHubActionsServer._get_repository_events
_get_repository_events(up, limit) ==
    LET r == get_repository_events(up, limit) IN
    IF r.raised THEN ErrorText(r)
    ELSE IF \E i \in 1..Len(r.value) : FormatRaises(r.value[i]) THEN ErrorText(r)
    ELSE JsonText([i \in 1..Len(r.value) |-> RepositoryEventEntry(r.value[i])], r)

\* GitHubActionsServer._get_user_activity
_get_user_activity(up, days) ==
    LET r == get_user_activity(up, days) IN
    IF r.raised THEN ErrorText(r) ELSE JsonText(r.value, r)

CommitEntry(commit) ==
    [sha |-> commit.sha, date |-> commit.date, repository |-> commit.repository]

\* GitHubActionsServer._get_user_commits
_get_user_commits(up, since, limit) ==
    LET r == get_user_commits(up, since, limit) IN
    IF r.raised THEN ErrorText(r)
    ELSE JsonText([i \in 1..Len(r.value) |-> CommitEntry(r.value[i])], r)

\* The defaults handle_call_tool gives the optional arguments.
DefaultEventLimit == 30
DefaultActivityDays == 7
DefaultCommitLimit == 50

\* arguments.get(key, default)
Get(arguments, key, default) ==
    IF key \in DOMAIN arguments THEN arguments[key] ELSE default

\* handle_call_tool raised ValueError("Unknown tool: ...").
UnknownTool == [kind |-> "unknown_tool", body |-> <<>>, client |-> Raised(0)]

\* handle_call_tool(name, arguments); `up` is the upstream content the call
\* reads.
handle_call_tool(name, arguments, up) ==
    CASE name = "get_user_events" ->
            _get_user_events(up, Get(arguments, "limit", DefaultEventLimit))
      [] name = "get_repository_events" ->
            _get_repository_events(up, Get(arguments, "limit", DefaultEventLimit))
      [] name = "get_user_activity" ->
            _get_user_activity(up, Get(arguments, "days", DefaultActivityDays))
      [] name = "get_user_commits" ->
            _get_user_commits(up, Get(arguments, "since", NoSince),
                              Get(arguments, "limit", DefaultCommitLimit))
      [] OTHER -> UnknownTool

\* The names handle_list_tools lists.
ListedTools ==
    {"get_user_events", "get_repository_events", "get_user_activity",
     "get_user_commits"}

-----------------------------------------------------------------------------
(* Construction of the server: Config, GitHubClient, tool registration *)

\* str.strip(): the text without its leading and trailing whitespace.
IsSpace(c) == c \in {" ", "\t", "\n"}
Strip(t) ==
    LET inked == {i \in 1..Len(t) : ~IsSpace(CharAt(t, i))} IN
    IF inked = {} THEN ""
    ELSE SubSeq(t, CHOOSE i \in inked : \A j \in inked : i <= j,
                CHOOSE i \in inked : \A j \in inked : i >= j)

\* Config(): github_token is a required text field read from the
\* environment; a text of any content is accepted as it is.
Config(environment) ==
    IF environment.GITHUB_TOKEN = None THEN Raised(0)
    ELSE Returned([github_token |-> environment.GITHUB_TOKEN], 0)

\* Config.validate_github_token
validate_github_token(config) ==
    config.github_token # "" /\ Strip(config.github_token) # ""

\* GitHubClient.__init__: the token is stored and handed to the GitHub
\* library and to the HTTP session.  Whether the library refuses an empty
\* token at this point depends on its version.
GitHubClientRaises(token, library) == token = "" /\ library.refuses_empty_token

\* GitHubActionsServer.__init__: the configuration, the client, the server
\* object and the tool handlers, in this order.  validate_github_token is
\* not called.
GitHubActionsServer(environment, library) ==
    LET config == Config(environment) IN
    IF config.raised THEN [constructed |-> FALSE, tools |-> {}]
    ELSE IF GitHubClientRaises(config.value.github_token, library)
         THEN [constructed |-> FALSE, tools |-> {}]
         ELSE [constructed |-> TRUE, tools |-> ListedTools]

-----------------------------------------------------------------------------
(* Inputs *)

Limits == 0..MaxLimit
Days == 1..MaxDays

\* Argument objects: the required arguments, with or without an optional one.
WithOptional(required, key, values) ==
    {required} \cup {required @@ (key :> v) : v \in values}

UserArgs == [username |-> "octocat"]
RepoArgs == [owner |-> "octocat", repo |-> "app"]

\* The events the streams of the event tools are drawn from.
ToolEvents ==
    {[type |-> t, actor |-> "octocat", repo |-> "octocat/app",
      created_at |-> Now, payload |-> p] :
        t \in {"PushEvent", "ReleaseEvent", "GollumEvent"},
        p \in {PayloadFull, PayloadNulls}}
    \cup {[type |-> "WatchEvent", actor |-> None, repo |-> None,
           created_at |-> Now, payload |-> PayloadNone]}

EventWorlds == EventStreams(ToolEvents)

\* The events the streams of get_user_activity are drawn from: created just
\* before the window start, at it, and after it.
ActivityEventPool(since) ==
    {[type |-> "PushEvent", actor |-> "octocat", repo |-> "octocat/app",
      created_at |-> t, payload |-> p] :
        t \in (since - 1)..(since + 1), p \in {PayloadFull, PayloadNone}}
    \cup {[type |-> "WatchEvent", actor |-> "octocat", repo |-> None,
           created_at |-> t, payload |-> PayloadFull] :
        t \in (since - 1)..(since + 1)}

\* Commit dates: one outside every window, one inside every window.
OldDate == Now - DefaultDays - 1
CommitDates == {OldDate, Now}

\* Newest-first date sequences, as upstream lists commits.
DateSeqs ==
    {d \in SeqsUpTo(CommitDates, MaxCommits) :
        \A i \in 1..(Len(d) - 1) : d[i] >= d[i + 1]}

\* Date sequences of commits that all lie inside every window.
RecentDateSeqs == {[k \in 1..n |-> Now] : n \in 0..MaxCommits}

RepoName(i) == "octocat/r" \o ToString(i)

MakeRepo(i, shape) ==
    [full_name |-> RepoName(i),
     updated_at |-> shape.updated_at,
     commits |-> [k \in 1..Len(shape.dates) |-> Commit(RepoName(i), k, shape.dates[k])],
     failAfter |-> -1]

\* The points at which a commit query may fail: at once, or after one commit.
FailPoints == {0, 1}

\* `repos`, and `repos` with the commit query of one repository failing.
WithOneFailure(repos) ==
    {repos} \cup
    {[repos EXCEPT ![i].failAfter = k] : i \in 1..Len(repos), k \in FailPoints}

\* The repository lists of a user, in upstream order; at most one of the
\* repositories has a failing commit query.
RepoLists(updates, dates) ==
    LET Shapes == [updated_at : updates, dates : dates] IN
    UNION {WithOneFailure([i \in 1..Len(sh) |-> MakeRepo(i, sh[i])]) :
              sh \in SeqsUpTo(Shapes, MaxRepos)}

OneEvent ==
    [lookupFails |-> FALSE, failAt |-> 0,
     items |-> <<[type |-> "PushEvent", actor |-> "octocat", repo |-> "octocat/app",
                  created_at |-> Now, payload |-> PayloadFull]>>]

OneRepo == <<MakeRepo(1, [updated_at |-> Now, dates |-> <<Now>>])>>

Issue(n, pr) == [number |-> n, pull_request |-> pr]

NoIssues == [items |-> <<>>, failAt |-> 0]

IssueSearches ==
    {[items |-> <<Issue(1, FALSE), Issue(2, TRUE)>>, failAt |-> f] : f \in 0..2}

ActivityRepoLists == RepoLists({OldDate, Now}, RecentDateSeqs \cup {<<OldDate>>})

\* What one call of get_user_activity reads.  The event stream, the
\* repositories and the issue search are read by three independent parts of
\* the method, so each is varied with the other two fixed.
\* One event of every recognized type and of one other type, over every raw
\* payload.
TypedEvents ==
    {[type |-> t, actor |-> "octocat", repo |-> "octocat/app",
      created_at |-> Now, payload |-> p] :
        t \in RecognizedTypes \cup {"GollumEvent"}, p \in Payloads}

ActivityWorlds(since) ==
    {[events |-> e, repos |-> OneRepo, search |-> NoIssues] :
        e \in EventStreams(ActivityEventPool(since))}
    \cup {[events |-> [lookupFails |-> FALSE, failAt |-> 0, items |-> <<e>>],
           repos |-> OneRepo, search |-> NoIssues] : e \in TypedEvents}
    \cup {[events |-> OneEvent, repos |-> r, search |-> NoIssues] :
        r \in ActivityRepoLists}
    \cup {[events |-> OneEvent, repos |-> OneRepo, search |-> q] :
        q \in IssueSearches}

CommitWorlds ==
    {[lookupFails |-> TRUE, repos |-> <<>>]}
    \cup {[lookupFails |-> FALSE, repos |-> r] : r \in RepoLists({Now}, DateSeqs)}

SinceArgs == {[given |-> TRUE, date |-> Now - 1]}

\* The repositories of the tech stack analysis: the commit at place k of
\* repository i is the sample at place i + k + shift, read without failure.
SampleAt(i, k, shift) == CommitSamples[((i + k + shift) % Len(CommitSamples)) + 1]

Filled(repos, shift) ==
    [i \in 1..Len(repos) |->
        [repos[i] EXCEPT
            !.commits = [k \in 1..Len(repos[i].commits) |->
                            repos[i].commits[k]
                            @@ [message |-> SampleAt(i, k, shift).message,
                                files |-> SampleAt(i, k, shift).files,
                                raises |-> "none"]]]]

\* What reading one commit may fail at.
CommitFailures == {"message", "files"}

\* `repos` with one commit that fails to be read.
WithOneCommitFailure(repos) ==
    UNION {{[repos EXCEPT ![i].commits[k].raises = f] :
               k \in 1..Len(repos[i].commits), f \in CommitFailures} :
           i \in 1..Len(repos)}

SoundRepoLists ==
    LET Shapes == [updated_at : {Now}, dates : RecentDateSeqs \cup {<<OldDate>>}] IN
    {[i \in 1..Len(sh) |-> MakeRepo(i, sh[i])] : sh \in SeqsUpTo(Shapes, MaxRepos)}

\* What one call of get_user_tech_stack reads: every filling of sound
\* repositories, and one filling with at most one failure.
TechWorlds ==
    {[lookupFails |-> TRUE, repos |-> <<>>]}
    \cup {[lookupFails |-> FALSE, repos |-> Filled(r, shift)] :
             r \in SoundRepoLists, shift \in 0..(Len(CommitSamples) - 1)}
    \cup {[lookupFails |-> FALSE, repos |-> r] :
             r \in UNION {WithOneFailure(Filled(l, 0))
                            \cup WithOneCommitFailure(Filled(l, 0)) :
                          l \in SoundRepoLists}}

\* The analyses a file is analysed into: a new one, and one with counts.
StartedAnalysis ==
    [NewAnalysis(1, Now - 1) EXCEPT
        !.tech_stack["libraries"] =
            <<[key |-> "numpy", count |-> 1], [key |-> "pandas", count |-> 2]>>,
        !.tech_stack["frameworks"] = <<[key |-> "flask", count |-> 1]>>]

Analyses == {NewAnalysis(1, Now - 1), StartedAnalysis}

\* An analysis that has tallied languages and file types before.
TalliedAnalysis ==
    [StartedAnalysis EXCEPT
        !.programming_languages =
            <<[key |-> "Python", count |-> 2], [key |-> "Markdown", count |-> 1]>>,
        !.file_types =
            <<[key |-> "py", count |-> 2], [key |-> "md", count |-> 1],
              [key |-> "no_extension", count |-> 1]>>,
        !.change_patterns =
            [additions |-> 7, deletions |-> 2, modifications |-> 2,
             new_files |-> 1, deleted_files |-> 0]]

\* The changed files of a commit: names with a known, an unknown, an
\* upper-case, a double and no extension, with and without diff text.
FileNames ==
    {"app.py", "web/Page.JSX", "stats.R", "x.tar.gz", "notes.txt", "Makefile",
     ".gitignore"}
FileStatuses == {"added", "removed", "modified", "renamed"}
ChangedFiles ==
    {File(n, s, 2, 1, p) :
        n \in FileNames, s \in FileStatuses, p \in {""} \cup Snippets}

\* Frequency tables, as lists of counts in insertion order: every table of
\* up to MaxKeys keys, and tables about as long as the two cuts of the
\* derived lists whose counts repeat with a period, so that equal counts lie
\* on both sides of a cut.
ShortShapes == SeqsUpTo(1..MaxCount, MaxKeys)
LongLengths ==
    ((TopTechs - 1)..(TopTechs + 2)) \cup ((TopLanguages - 1)..(TopLanguages + 2))
LongShapes ==
    {[i \in 1..n |-> 1 + ((i * step + shift) % MaxCount)] :
        n \in LongLengths, step \in 1..MaxCount, shift \in 1..MaxCount}
Shapes == ShortShapes \cup LongShapes

\* The names the tables are keyed with, in the order of the static tables.
LanguageNames ==
    LET first == {i \in 1..Len(language_map) :
                     \A j \in 1..(i - 1) : language_map[j].lang # language_map[i].lang}
        Nth(n) == CHOOSE i \in first : Cardinality({j \in first : j < i}) = n - 1
    IN  [n \in 1..Cardinality(first) |-> language_map[Nth(n)].lang]

TechNames(category) ==
    LET techs == (CHOOSE i \in 1..Len(tech_patterns) :
                     tech_patterns[i].category = category)
    IN  [j \in 1..Len(tech_patterns[techs].techs) |-> tech_patterns[techs].techs[j].name]

Keyed(shape, names) ==
    [i \in 1..Min(Len(shape), Len(names)) |-> [key |-> names[i], count |-> shape[i]]]

Repeated(label, n) == [i \in 1..n |-> label]

RECURSIVE LabelsOf(_, _)
LabelsOf(shape, i) ==
    IF i > Len(shape) \/ i > Len(commit_patterns) THEN <<>>
    ELSE Repeated(commit_patterns[i].category, shape[i]) \o LabelsOf(shape, i + 1)

\* The analysis of a finished aggregation pass whose tables have `shape`.
AggregatedAnalysis(shape) ==
    [NewAnalysis(1, Now - 1) EXCEPT
        !.programming_languages = Keyed(shape, LanguageNames),
        !.tech_stack = [c \in TechCategories |-> Keyed(shape, TechNames(c))],
        !.change_descriptions = LabelsOf(shape, 1)]

\* Tech stack analyses as get_user_tech_stack returns them: the statistics
\* of a pass that counted `languages`, `frameworks` and `tools` (names in
\* insertion order, one file each) over commits described by `labels`.
OneEach(names) == [i \in 1..Len(names) |-> [key |-> names[i], count |-> 1]]

TechStackProfile(languages, frameworks, tools, labels) ==
    _calculate_tech_stack_stats(
        [NewAnalysis(DefaultDays, Now - DefaultDays) EXCEPT
            !.programming_languages = languages,
            !.tech_stack["frameworks"] = OneEach(frameworks),
            !.tech_stack["tools"] = OneEach(tools),
            !.change_descriptions = labels,
            !.commits_analyzed = Len(labels),
            !.total_commits = Len(labels),
            !.repos_contributed = IF labels = <<>> THEN {} ELSE {RepoName(1)}])

\* The profile of a user without commits.
EmptyProfile == TechStackProfile(NoCounts, <<>>, <<>>, <<>>)

\* Profiles for the role: each primary language, alone or behind a language
\* with fewer files, with the frameworks and tools of each category check.
PrimaryLanguages ==
    {"Python", "Rust", "Go", "C", "C++", "JavaScript", "TypeScript", "Swift",
     "Shell", "HTML"}
RoleLanguages ==
    {NoCounts}
    \cup {<<[key |-> l, count |-> 1]>> : l \in PrimaryLanguages}
    \cup {<<[key |-> "Shell", count |-> 1], [key |-> l, count |-> 2]>> :
             l \in {"Python", "Kotlin"}}
RoleFrameworks ==
    {<<>>, <<"react">>, <<"flask">>, <<"flutter">>, <<"react", "flask">>,
     <<"tensorflow">>}
RoleTools == {<<>>, <<"docker">>, <<"git">>, <<"git", "docker">>}
RoleProfiles ==
    {TechStackProfile(l, f, t, <<"other">>) :
        l \in RoleLanguages, f \in RoleFrameworks, t \in RoleTools}

\* Profiles for the lists: every choice of the tools a sentence or a
\* methodology is triggered by, and commit mixes on both sides of each
\* threshold.
ToolPool == <<"docker", "makefile", "typescript", "jest", "git">>
ToolLists == {SelectSeq(ToolPool, LAMBDA t : t \in S) : S \in SUBSET Range(ToolPool)}
ListLanguages ==
    {NoCounts, OneEach(<<"Python">>), OneEach(<<"Rust", "Python", "TypeScript">>),
     OneEach(<<"Go", "C", "Java", "Ruby", "PHP", "Rust">>)}
Mix(counts) ==
    LET RECURSIVE From(_)
        From(i) == IF i > Len(counts) THEN <<>>
                   ELSE Repeated(counts[i][1], counts[i][2]) \o From(i + 1)
    IN  From(1)
CommitMixes ==
    {Mix(<<<<"other", 1>>>>),
     Mix(<<<<"feature", 1>>, <<"other", 2>>>>),
     Mix(<<<<"feature", 3>>, <<"other", 7>>>>),
     Mix(<<<<"bugfix", 1>>, <<"other", 3>>>>),
     Mix(<<<<"bugfix", 2>>, <<"refactor", 1>>, <<"other", 4>>>>),
     Mix(<<<<"test", 6>>, <<"other", 10>>>>),
     Mix(<<<<"test", 10>>, <<"other", 6>>>>),
     Mix(<<<<"test", 5>>, <<"performance", 2>>, <<"documentation", 3>>>>),
     Mix(<<<<"feature", 90>>, <<"test", 6>>, <<"performance", 3>>,
           <<"documentation", 4>>>>)}
ListProfiles ==
    {TechStackProfile(l, f, t, <<"other">>) :
        l \in ListLanguages, f \in {<<>>, <<"react">>}, t \in ToolLists}
    \cup {TechStackProfile(l, <<>>, t, m) :
             l \in {NoCounts, OneEach(<<"Rust", "Python", "TypeScript">>)},
             t \in {<<>>, <<"docker">>, <<"docker", "makefile">>},
             m \in CommitMixes}

TechStackProfiles == {EmptyProfile} \cup RoleProfiles \cup ListProfiles

\* The commit list get_user_commits returns, of a given length.
CommitList(n) == [k \in 1..n |-> Commit(RepoName(1), k, Now)]

\* Lengths of the commit list: the short ones, both sides of the threshold
\* of 50, and the limit of 100 the list is fetched with.
MaxListed == 7
CommitLengths == (0..MaxListed) \cup {50, 51, 100}

\* The activity get_user_activity returns for an event stream of `pulls`
\* pull request events, `issues` issue events and one push event.
MaxPulls == 6
MaxIssues == 2
EventOfType(type) ==
    [type |-> type, actor |-> "octocat", repo |-> "octocat/app",
     created_at |-> Now, payload |-> PayloadFull]
ActivityOf(pulls, issues) ==
    ActivityEvents(
        [lookupFails |-> FALSE, failAt |-> 0,
         items |-> [i \in 1..pulls |-> EventOfType("PullRequestEvent")]
                   \o <<EventOfType("PushEvent")>>
                   \o [i \in 1..issues |-> EventOfType("IssuesEvent")]],
        0, NewActivity(DefaultDays, Now - DefaultDays)).activity

\* What the synthesis reads: every profile with one commit list and one
\* activity, and one profile with every commit list and every activity.
SynthesisInputs ==
    {[tech_stack |-> p, commits |-> CommitList(2), activity |-> ActivityOf(1, 1)] :
        p \in TechStackProfiles}
    \cup {[tech_stack |-> EmptyProfile, commits |-> CommitList(n),
           activity |-> ActivityOf(pulls, issues)] :
             n \in CommitLengths, pulls \in 0..MaxPulls, issues \in 0..MaxIssues}
    \cup {[tech_stack |-> TechStackProfile(NoCounts, <<>>, t, <<"other">>),
           commits |-> CommitList(n), activity |-> ActivityOf(0, 0)] :
             t \in ToolLists, n \in {50, 51}}

\* The environments a server is started in: no token, an empty one, ones of
\* whitespace only, and tokens with ink.
Tokens == {None, "", " ", " \t ", "ghp_16C7e42F", " ghp_16C7e42F "}
Environments == {[GITHUB_TOKEN |-> t] : t \in Tokens}
Libraries == {[refuses_empty_token |-> b] : b \in BOOLEAN}

\* Commits read by the profile: data-science code in Python, a Rust source
\* file, a container file.
ProfileSamples ==
    <<[message |-> "Train the model",
       files |-> <<File("model/train.py", "added", 9, 0,
                        "import pandas as pd; import numpy as np; import tensorflow as tf;")>>],
      [message |-> "Port the parser",
       files |-> <<File("src/parser.rs", "added", 7, 2, "use serde::Deserialize;")>>],
      [message |-> "Add container",
       files |-> <<File("Dockerfile", "added", 3, 0, "docker build .;")>>]>>

\* A commit date inside the one-year window of the commit list and before the
\* window of every `days` argument but the default.
MidDate == Now - MaxDays - 1

\* The account a commit is linked to: the user's, or none.
Authors == {"octocat", None}

\* Repository i with one commit per date, each commit holding the sample at
\* place `sample` and linked to `author`.
ProfileRepo(i, dates, samples, sample, author) ==
    [MakeRepo(i, [updated_at |-> Now, dates |-> dates]) EXCEPT
        !.commits = [k \in 1..Len(dates) |->
                        @[k] @@ [message |-> samples[sample].message,
                                 files |-> samples[sample].files,
                                 raises |-> "none",
                                 author |-> author]]]

\* Many repositories with many commits of one date: more commits than the
\* commit list takes, and more than the analysis takes.
BigRepos == 6
BigCommits == 34
BigRepoList(n, date) ==
    [i \in 1..n |->
        ProfileRepo(i, [k \in 1..BigCommits |-> date], CommitSamples, 3, "octocat")]

ExperienceRepoLists ==
    {<<>>}
    \cup {<<ProfileRepo(1, d, CommitSamples, 1, a)>> :
             d \in {<<Now>>, <<MidDate>>, <<Now, MidDate>>, <<Now, OldDate>>},
             a \in Authors}
    \cup {<<ProfileRepo(1, <<Now>>, ProfileSamples, s, "octocat")>> :
             s \in 1..Len(ProfileSamples)}
    \cup {<<ProfileRepo(1, <<Now>>, ProfileSamples, 2, a),
            ProfileRepo(2, <<Now>>, ProfileSamples, s, a)>> :
             s \in 1..Len(ProfileSamples), a \in Authors}
    \cup {BigRepoList(n, date) : n \in {3, BigRepos}, date \in {Now, MidDate}}

\* What one call of generate_work_experience reads upstream.
ExperienceWorld(repos) ==
    [lookupFails |-> FALSE, repos |-> repos, events |-> OneEvent, search |-> NoIssues]

\* The calls of generate_work_experience: every repository list with every
\* `days`, and the optional arguments with one repository list.
ExperienceDays == Days \cup {DefaultDays}
RepoNames == {None, "acme/demo-site", "notes"}
Organizations == {None, "Acme"}
ExperienceCalls ==
    {[up |-> ExperienceWorld(r), days |-> d, repo_name |-> None,
      organization |-> None] : r \in ExperienceRepoLists, d \in ExperienceDays}
    \cup {[up |-> ExperienceWorld(<<ProfileRepo(1, <<Now>>, CommitSamples, 1, "octocat")>>),
           days |-> DefaultDays, repo_name |-> n, organization |-> o] :
             n \in RepoNames, o \in Organizations}
    \cup {[up |-> [ExperienceWorld(<<>>) EXCEPT !.lookupFails = TRUE],
           days |-> DefaultDays, repo_name |-> None, organization |-> None]}

\* What the single steps of the synthesis read.
LinkedCommits(n, author) ==
    [k \in 1..n |-> Commit(RepoName(1), k, Now) @@ [author |-> author]]
ContributedLists ==
    {[i \in 1..n |-> RepoName(i)] : n \in {0, 1, 2, 4}} \cup {<<"notes">>}
CollaborationInputs ==
    {[commits |-> LinkedCommits(n, a), repos_contributed |-> r] :
        n \in 0..2, a \in Authors, r \in ContributedLists}
SummaryInputs ==
    [role_title : {"Software Engineer", "Data Scientist"},
     technologies : {<<>>, <<"Python">>,
                     <<"Python", "Go", "Rust", "C", "Shell", "HTML">>},
     achievements : {<<>>, <<"Shipped it">>, <<"Shipped it", "Fixed it">>},
     organization : Organizations \cup {""}]

-----------------------------------------------------------------------------
(* Specification *)

\* The server serves one invocation at a time: from idle, a call runs one
\* handler to its end; delivering the outcome makes the server idle again.
NoInput == [name |-> "none"]
NoOutput == [kind |-> "none"]

Init ==
    /\ op = "idle"
    /\ input = NoInput
    /\ output = NoOutput

Respond ==
    /\ op # "idle"
    /\ op' = "idle"
    /\ input' = NoInput
    /\ output' = NoOutput

\* One invocation of a tool through handle_call_tool.
Invoke(name, arguments, up) ==
    /\ op' = name
    /\ input' = [name |-> name, arguments |-> arguments, up |-> up]
    /\ output' = handle_call_tool(name, arguments, up)

CallGetUserEvents ==
    /\ op = "idle"
    /\ \E up \in EventWorlds,
          arguments \in WithOptional(UserArgs, "limit", Limits) :
            Invoke("get_user_events", arguments, up)

CallGetRepositoryEvents ==
    /\ op = "idle"
    /\ \E up \in EventWorlds,
          arguments \in WithOptional(RepoArgs, "limit", Limits) :
            Invoke("get_repository_events", arguments, up)

CallGetUserActivity ==
    /\ op = "idle"
    /\ \E arguments \in WithOptional(UserArgs, "days", Days) :
          \E up \in ActivityWorlds(Now - Get(arguments, "days", DefaultActivityDays)) :
            Invoke("get_user_activity", arguments, up)

CallGetUserCommits ==
    /\ op = "idle"
    /\ \E up \in CommitWorlds,
          a \in WithOptional(UserArgs, "since", SinceArgs),
          limit \in Limits :
            Invoke("get_user_commits", a @@ [limit |-> limit], up)

\* The two tools of the tool surface that handle_list_tools does not list.
CallUnlistedTool ==
    /\ op = "idle"
    /\ \E name \in {"get_user_tech_stack", "generate_work_experience"},
          arguments \in WithOptional(UserArgs, "days", Days) :
            Invoke(name, arguments, [lookupFails |-> FALSE, repos |-> OneRepo])

\* One call of a method of the client.
ClientOutcome(r) ==
    [kind |-> IF r.raised THEN "raised" ELSE "returned", body |-> <<>>, client |-> r]

GetUserTechStack ==
    /\ op = "idle"
    /\ \E up \in TechWorlds, days \in Days, limit \in Limits :
          /\ op' = "GitHubClient.get_user_tech_stack"
          /\ input' = [name |-> "GitHubClient.get_user_tech_stack",
                       arguments |-> [username |-> "octocat", days |-> days,
                                      limit |-> limit],
                       up |-> up]
          /\ output' = ClientOutcome(get_user_tech_stack(up, days, limit))

\* One commit message classified.
Classify ==
    /\ op = "idle"
    /\ \E message \in Messages :
          /\ op' = "_categorize_commit_message"
          /\ input' = [name |-> "_categorize_commit_message", message |-> message]
          /\ output' = [kind |-> "label",
                        label |-> _categorize_commit_message(message)]

\* The diff text of one file analysed into an analysis.
AnalyzeFileContent ==
    /\ op = "idle"
    /\ \E patch \in Patches, analysis \in Analyses :
          /\ op' = "_analyze_file_content"
          /\ input' = [name |-> "_analyze_file_content", patch |-> patch,
                       analysis |-> analysis]
          /\ output' = [kind |-> "analysis",
                        analysis |-> _analyze_file_content(patch, analysis)]

\* One changed file of a commit analysed into an analysis.
AnalyzeChangedFile ==
    /\ op = "idle"
    /\ \E file \in ChangedFiles, analysis \in Analyses \cup {TalliedAnalysis} :
          /\ op' = "analyze_file"
          /\ input' = [name |-> "analyze_file", file |-> file,
                       analysis |-> analysis]
          /\ output' = [kind |-> "analysis",
                        analysis |-> AnalyzeFile(file, analysis)]

\* The statistics of one finished aggregation pass.
CalculateStats ==
    /\ op = "idle"
    /\ \E shape \in Shapes :
          /\ op' = "_calculate_tech_stack_stats"
          /\ input' = [name |-> "_calculate_tech_stack_stats",
                       analysis |-> AggregatedAnalysis(shape)]
          /\ output' = [kind |-> "analysis",
                        analysis |-> _calculate_tech_stack_stats(
                                         AggregatedAnalysis(shape))]

\* The role title inferred from a tech stack analysis.
InferRoleTitle ==
    /\ op = "idle"
    /\ \E in \in SynthesisInputs :
          /\ op' = "_infer_role_title"
          /\ input' = [name |-> "_infer_role_title"] @@ in
          /\ output' = [kind |-> "title",
                        title |-> _infer_role_title(in.tech_stack, in.commits)]

\* The responsibilities generated from a tech stack analysis.
GenerateResponsibilities ==
    /\ op = "idle"
    /\ \E in \in SynthesisInputs :
          /\ op' = "_generate_responsibilities"
          /\ input' = [name |-> "_generate_responsibilities"] @@ in
          /\ output' = [kind |-> "list",
                        items |-> _generate_responsibilities(in.tech_stack,
                                                             in.commits)]

\* The achievements generated from a tech stack analysis.
GenerateAchievements ==
    /\ op = "idle"
    /\ \E in \in SynthesisInputs :
          /\ op' = "_generate_achievements"
          /\ input' = [name |-> "_generate_achievements"] @@ in
          /\ output' = [kind |-> "list",
                        items |-> _generate_achievements(in.tech_stack, in.commits,
                                                         in.activity)]

\* The methodologies inferred, in one of the orders the set may be listed in.
InferMethodologies ==
    /\ op = "idle"
    /\ \E in \in SynthesisInputs :
          \E list \in _infer_methodologies(in.tech_stack, in.commits) :
             /\ op' = "_infer_methodologies"
             /\ input' = [name |-> "_infer_methodologies"] @@ in
             /\ output' = [kind |-> "list", items |-> list]

\* The metrics calculated from the commit list and the activity.
CalculateExperienceMetrics ==
    /\ op = "idle"
    /\ \E in \in SynthesisInputs :
          /\ op' = "_calculate_experience_metrics"
          /\ input' = [name |-> "_calculate_experience_metrics"] @@ in
          /\ output' = [kind |-> "metrics",
                        metrics |-> _calculate_experience_metrics(
                                        in.commits, in.activity, in.tech_stack)]

\* A server is constructed in an environment.
Construct ==
    /\ op = "idle"
    /\ \E environment \in Environments, library \in Libraries :
          /\ op' = "GitHubActionsServer.__init__"
          /\ input' = [name |-> "GitHubActionsServer.__init__",
                       environment |-> environment, library |-> library]
          /\ output' = [kind |-> "server"]
                       @@ GitHubActionsServer(environment, library)

\* The collaboration analysed from a commit list and the repositories.
AnalyzeCollaboration ==
    /\ op = "idle"
    /\ \E in \in CollaborationInputs :
          /\ op' = "_analyze_collaboration"
          /\ input' = [name |-> "_analyze_collaboration"] @@ in
          /\ output' = ClientOutcome(
                          _analyze_collaboration(in.commits, in.repos_contributed))

\* The linked artifacts generated for a primary repository.
GenerateLinkedArtifacts ==
    /\ op = "idle"
    /\ \E primary_repo \in RepoNames \cup {"octocat/r1", "acme/Showcase"} :
          /\ op' = "_generate_linked_artifacts"
          /\ input' = [name |-> "_generate_linked_artifacts",
                       primary_repo |-> primary_repo]
          /\ output' = [kind |-> "artifacts",
                        artifacts |-> _generate_linked_artifacts(
                                          primary_repo, "octocat", <<>>)]

\* The summary generated from a role, technologies, achievements and an
\* organization.
GenerateLinkedinSummary ==
    /\ op = "idle"
    /\ \E in \in SummaryInputs :
          /\ op' = "_generate_linkedin_summary"
          /\ input' = [name |-> "_generate_linkedin_summary"] @@ in
          /\ output' = [kind |-> "summary",
                        summary |-> _generate_linkedin_summary(
                                        in.role_title, in.technologies,
                                        in.achievements, in.organization)]

\* One call of GitHubClient.generate_work_experience.
GenerateWorkExperience ==
    /\ op = "idle"
    /\ \E call \in ExperienceCalls :
          \E r \in generate_work_experience(call.up, "octocat", call.repo_name,
                                           call.organization, call.days) :
             /\ op' = "GitHubClient.generate_work_experience"
             /\ input' = [name |-> "GitHubClient.generate_work_experience",
                          arguments |-> [username |-> "octocat",
                                         repo_name |-> call.repo_name,
                                         organization |-> call.organization,
                                         days |-> call.days],
                          up |-> call.up]
             /\ output' = ClientOutcome(r)

Next ==
    \/ CallGetUserEvents
    \/ CallGetRepositoryEvents
    \/ CallGetUserActivity
    \/ CallGetUserCommits
    \/ CallUnlistedTool
    \/ GetUserTechStack
    \/ Classify
    \/ AnalyzeFileContent
    \/ AnalyzeChangedFile
    \/ CalculateStats
    \/ InferRoleTitle
    \/ GenerateResponsibilities
    \/ GenerateAchievements
    \/ InferMethodologies
    \/ CalculateExperienceMetrics
    \/ AnalyzeCollaboration
    \/ GenerateLinkedArtifacts
    \/ GenerateLinkedinSummary
    \/ GenerateWorkExperience
    \/ Construct
    \/ Respond

Spec == Init /\ [][Next]_vars

-----------------------------------------------------------------------------
(* Vocabulary of the properties *)

EventTools == {"get_user_events", "get_repository_events"}

\* The tool surface: the six tool names of the documentation and of the
\* test script.
ToolSurface ==
    ListedTools \cup {"get_user_tech_stack", "generate_work_experience"}

\* The `limit` and `days` a call ran with.
LimitOf(in) ==
    Get(in.arguments, "limit",
        IF in.name = "get_user_commits" THEN DefaultCommitLimit ELSE DefaultEventLimit)
DaysOf(in) == Get(in.arguments, "days", DefaultActivityDays)

\* The events of a stream that lie inside the window starting at `since`.
InWindow(items, since) == SelectSeq(items, LAMBDA e : e.created_at >= since)

Count(seq, P(_)) == Cardinality({i \in 1..Len(seq) : P(seq[i])})

-----------------------------------------------------------------------------
(* C1 *)

\* C1: in the result of get_user_activity(username, days) the events list is
\* exactly the events of the stream with created_at >= since, in stream
\* order, where since = now - days: an event created exactly at `since` is
\* included, and total_events, event_types and repositories_active count
\* these events and no others.
C1_WindowFilter ==
    (op = "get_user_activity" /\ output.kind = "json") =>
        LET a == output.body
            since == Now - DaysOf(input)
            inside == InWindow(input.up.events.items, since)
        IN  /\ a.since = since
            /\ \A i \in 1..Len(a.events) : a.events[i].created_at >= since
            /\ Len(a.events) = Len(inside)
            /\ \A i \in 1..Len(inside) :
                  /\ a.events[i].type = inside[i].type
                  /\ a.events[i].repo = inside[i].repo
                  /\ a.events[i].created_at = inside[i].created_at
            /\ a.total_events = Len(inside)
            /\ DOMAIN a.event_types = {e.type : e \in Range(inside)}
            /\ \A t \in DOMAIN a.event_types :
                  a.event_types[t] = Count(inside, LAMBDA e : e.type = t)
            /\ a.repositories_active = {e.repo : e \in Range(inside)} \ {None}

\* A call whose stream holds an event exactly at the window start and an
\* event before it.
C1_Witness ==
    /\ op = "get_user_activity"
    /\ output.kind = "json"
    /\ \E i, j \in 1..Len(input.up.events.items) :
          /\ input.up.events.items[i].created_at = Now - DaysOf(input)
          /\ input.up.events.items[j].created_at < Now - DaysOf(input)
    /\ Len(output.body.events) = 1

-----------------------------------------------------------------------------
(* C2 *)

\* C2: for every limit >= 0 and every upstream content, get_user_events and
\* get_repository_events return at most `limit` events, get_user_commits
\* returns at most `limit` commits over all repositories together, and
\* get_user_tech_stack analyses at most `limit` commits.
C2_AtMostLimit ==
    /\ (op \in EventTools \cup {"get_user_commits"} /\ ~output.client.raised) =>
          Len(output.client.value) <= LimitOf(input)
    /\ (op = "GitHubClient.get_user_tech_stack" /\ ~output.client.raised) =>
          output.client.value.commits_analyzed <= input.arguments.limit

\* get_user_commits over two repositories that each hold at least `limit`
\* commits of the window: the result is cut to `limit`.
C2_Witness ==
    /\ op = "get_user_commits"
    /\ ~output.client.raised
    /\ LimitOf(input) > 0
    /\ Len(input.up.repos) > 1
    /\ \A i \in 1..Len(input.up.repos) :
          /\ input.up.repos[i].failAfter < 0
          /\ Len(UpstreamCommits(input.up.repos[i],
                    SinceDate(Get(input.arguments, "since", NoSince))))
                >= LimitOf(input)
    /\ Len(output.client.value) = LimitOf(input)

-----------------------------------------------------------------------------
(* C3 *)

\* C3: get_user_events and get_repository_events return the first
\* min(limit, n) events of the stream in stream order and never pull more
\* than `limit` items from the upstream stream.
C3_StopsAfterLimit ==
    (op \in EventTools /\ ~input.up.lookupFails) =>
        /\ output.client.pulled <= LimitOf(input)
        /\ ~output.client.raised
        /\ output.client.value = Take(input.up.items, LimitOf(input))

-----------------------------------------------------------------------------
(* C4 *)

\* C4: every tool name of the tool surface is listed by the server and is
\* dispatched to a handler that returns one text block; none is rejected as
\* an unknown tool.
C4_SurfaceDispatched ==
    op \in ToolSurface =>
        /\ op \in ListedTools
        /\ output.kind \in {"json", "error"}

-----------------------------------------------------------------------------
(* C5 *)

\* C5: when the client call made by _get_user_events, _get_repository_events,
\* _get_user_activity or _get_user_commits raises, the handler raises nothing
\* and returns one text item describing the failure.
C5_FailureBecomesText ==
    (op \in ListedTools /\ output.client.raised) => output.kind = "error"

\* A listed tool whose client call raised.
C5_Witness ==
    /\ op = "get_user_commits"
    /\ output.client.raised

-----------------------------------------------------------------------------
(* C6 *)

\* C6: in get_user_activity an event whose payload fields cannot be extracted
\* is still listed and counted, with an error record as its payload; every
\* other event has its projected payload, and the aggregation runs to
\* completion.
C6_ExtractionFailureIsLocal ==
    (op = "get_user_activity" /\ ~input.up.events.lookupFails
        /\ input.up.events.failAt = 0) =>
        LET inside == InWindow(input.up.events.items, Now - DaysOf(input)) IN
        /\ output.kind = "json"
        /\ output.body.total_events = Len(inside)
        /\ Len(output.body.events) = Len(inside)
        /\ \A i \in 1..Len(inside) :
              IF inside[i].type \in RecognizedTypes
              THEN output.body.events[i].payload =
                      IF FieldAccessRaises(inside[i]) THEN ErrorPayload
                      ELSE Fields(ClientKeys(inside[i].type))
              ELSE output.body.events[i].payload.kind = "raw"

\* A malformed event followed by a well-formed one, both listed.
C6_Witness ==
    /\ op = "get_user_activity"
    /\ output.kind = "json"
    /\ Len(output.body.events) = 2
    /\ output.body.events[1].payload.kind = "error"
    /\ output.body.events[2].payload.kind = "fields"
    /\ Len(output.body.commits) = 1

-----------------------------------------------------------------------------
(* C7 *)

\* C7: in the get_user_events and get_repository_events tools an event whose
\* payload fields cannot be extracted degrades to an error record for that
\* event only; the other events are returned and the call is not turned into
\* a whole-call error.
C7_FormatFailureIsLocal ==
    (op \in EventTools /\ ~output.client.raised) =>
        /\ output.kind = "json"
        /\ Len(output.body) = Len(output.client.value)
        /\ \A i \in 1..Len(output.body) :
              FieldAccessRaises(output.client.value[i]) =>
                  output.body[i].payload.kind = "error"

-----------------------------------------------------------------------------
(* C8 *)

\* The repositories of a call other than repository f, and the commits of
\* the window that upstream holds for them.
OtherRepos(repos, f) == {i \in 1..Len(repos) : i # f}
CommitsOf(repos, indices, since) ==
    UNION {Range(UpstreamCommits(repos[i], since)) : i \in indices}

\* C8: in get_user_activity, get_user_commits and get_user_tech_stack a
\* failure of the commit query of one repository does not abort the call:
\* the call returns normally and its result holds the contributions of the
\* other repositories, those before and those after the failing one (as far
\* as `limit` leaves room for them).
C8_RepositoryFailureIsLocal ==
    /\ (op = "get_user_activity" /\ input.up.events = OneEvent) =>
          LET since == Now - DaysOf(input)
              repos == input.up.repos
          IN  \A f \in 1..Len(repos) : QueryFails(repos[f], since) =>
                /\ output.kind = "json"
                /\ CommitsOf(repos, {i \in OtherRepos(repos, f) :
                                        ~SkipRepository(repos[i], since)}, since)
                      \subseteq Range(output.body.commits)
    /\ (op = "get_user_commits" /\ ~input.up.lookupFails) =>
          LET since == SinceDate(Get(input.arguments, "since", NoSince))
              repos == input.up.repos
          IN  \A f \in 1..Len(repos) : QueryFails(repos[f], since) =>
                /\ output.kind = "json"
                /\ Len(output.client.value) < LimitOf(input) =>
                      CommitsOf(repos, OtherRepos(repos, f), since)
                         \subseteq Range(output.client.value)
    /\ (op = "GitHubClient.get_user_tech_stack" /\ ~input.up.lookupFails) =>
          LET since == Now - input.arguments.days
              repos == input.up.repos
          IN  \A f \in 1..Len(repos) : QueryFails(repos[f], since) =>
                /\ output.kind = "returned"
                /\ output.client.value.commits_analyzed < input.arguments.limit =>
                      LET others == CommitsOf(repos, OtherRepos(repos, f), since) IN
                      /\ output.client.value.commits_analyzed = Cardinality(others)
                      /\ output.client.value.repos_contributed =
                            {c.repository : c \in others}

\* The tech stack analysis of two repositories: the commit query of the
\* first fails at once, the commits of the second are analysed.
C8_Witness ==
    /\ op = "GitHubClient.get_user_tech_stack"
    /\ Len(input.up.repos) = 2
    /\ input.up.repos[1].failAfter = 0
    /\ output.kind = "returned"
    /\ output.client.value.commits_analyzed > 0
    /\ output.client.value.repos_contributed = {input.up.repos[2].full_name}

-----------------------------------------------------------------------------
(* C9 *)

CategoriesInOrder ==
    <<"feature", "bugfix", "refactor", "documentation", "test", "style",
      "performance", "security", "dependency", "configuration", "deployment",
      "database", "api", "ui">>

\* C9: the classifier gives every commit message exactly one label: the
\* first of the 14 categories, in table order, one of whose keywords occurs
\* in the message as a case-insensitive substring, or `other` when no keyword
\* occurs.  The label is a function of the message alone, and
\* "Fix login bug" is a bugfix.
C9_FirstMatchingCategory ==
    op = "_categorize_commit_message" =>
        LET folded == Lower(input.message)
            Hit(i) == \E k \in 1..Len(commit_patterns[i].keywords) :
                         Occurs(Lower(commit_patterns[i].keywords[k]), folded)
            hits == {i \in 1..Len(commit_patterns) : Hit(i)}
        IN  /\ [i \in 1..Len(commit_patterns) |-> commit_patterns[i].category]
                  = CategoriesInOrder
            /\ output.label =
                  IF hits = {} THEN "other"
                  ELSE CategoriesInOrder[CHOOSE i \in hits : \A j \in hits : i <= j]
            /\ input.message = "Fix login bug" => output.label = "bugfix"

\* "Fix login bug" classified.
C9_Witness ==
    /\ op = "_categorize_commit_message"
    /\ input.message = "Fix login bug"
    /\ output.label = "bugfix"

-----------------------------------------------------------------------------
(* C10 *)

\* C10: one run of the keyword-in-diff extraction on the diff text of one
\* file raises the count of a technology by exactly 1 if at least one of its
\* patterns occurs in the case-folded diff, and by 0 otherwise, however many
\* of its patterns match and however often; a diff holding "import pandas"
\* raises libraries.pandas by exactly 1.
C10_CountedOncePerFile ==
    op = "_analyze_file_content" =>
        LET before == input.analysis.tech_stack
            after == output.analysis.tech_stack
            folded == Lower(input.patch)
        IN  /\ \A r \in 1..Len(TechRows) :
                  LET row == TechRows[r] IN
                  CountOf(after[row.category], row.name)
                     - CountOf(before[row.category], row.name)
                  = IF \E k \in 1..Len(row.patterns) : Occurs(row.patterns[k], folded)
                    THEN 1 ELSE 0
            /\ Occurs("import pandas", input.patch) =>
                  CountOf(after["libraries"], "pandas")
                     = CountOf(before["libraries"], "pandas") + 1

\* A diff text that holds "import pandas" twice, analysed into an analysis
\* that has counted pandas before.
C10_Witness ==
    /\ op = "_analyze_file_content"
    /\ input.patch = "import pandas as pd; import pandas as pd;"
    /\ CountOf(input.analysis.tech_stack["libraries"], "pandas") = 2
    /\ CountOf(output.analysis.tech_stack["libraries"], "pandas") = 3

-----------------------------------------------------------------------------
(* C11 *)

\* The languages of the extension table, and the final extension of a file
\* name: what follows its last dot.
Languages == {language_map[i].lang : i \in 1..Len(language_map)}
FinalExtension(name) ==
    LET k == CHOOSE i \in 1..Len(name) :
                /\ CharAt(name, i) = "."
                /\ \A j \in (i + 1)..Len(name) : CharAt(name, j) # "."
    IN  SubSeq(name, k + 1, Len(name))

\* C11: analysing one changed file raises by exactly 1 the count of the
\* language the extension table maps its lower-cased final extension to, and
\* changes no language count when the extension is not in the table or the
\* name has no dot; it raises by exactly 1 the file_types tally of the bare
\* lower-cased extension.  A file app.py whose diff holds
\* "from flask import Flask" raises Python by 1 and frameworks.flask by 1.
C11_LanguageByExtension ==
    op = "analyze_file" =>
        LET name == input.file.filename
            before == input.analysis
            after == output.analysis
            dotted == Occurs(".", name)
            ext == Lower(FinalExtension(name))
            Mapped(lang) ==
                /\ dotted
                /\ \E i \in 1..Len(language_map) :
                      /\ language_map[i].ext = "." \o ext
                      /\ language_map[i].lang = lang
        IN  /\ KeysOf(after.programming_languages)
                  \subseteq KeysOf(before.programming_languages) \cup Languages
            /\ \A lang \in KeysOf(before.programming_languages) \cup Languages :
                  CountOf(after.programming_languages, lang)
                     - CountOf(before.programming_languages, lang)
                  = IF Mapped(lang) THEN 1 ELSE 0
            /\ dotted =>
                  \A k \in KeysOf(after.file_types) \cup KeysOf(before.file_types) :
                     CountOf(after.file_types, k) - CountOf(before.file_types, k)
                     = IF k = ext THEN 1 ELSE 0
            /\ (name = "app.py" /\ Occurs("from flask import Flask", input.file.patch)) =>
                  /\ CountOf(after.programming_languages, "Python")
                        = CountOf(before.programming_languages, "Python") + 1
                  /\ CountOf(after.tech_stack["frameworks"], "flask")
                        = CountOf(before.tech_stack["frameworks"], "flask") + 1

\* app.py with the flask import analysed into an analysis that has counted
\* Python and flask before.
C11_Witness ==
    /\ op = "analyze_file"
    /\ input.file.filename = "app.py"
    /\ input.file.patch = "from flask import Flask;"
    /\ CountOf(input.analysis.programming_languages, "Python") = 2
    /\ CountOf(output.analysis.programming_languages, "Python") = 3
    /\ CountOf(output.analysis.tech_stack["frameworks"], "flask") = 2
    /\ CountOf(output.analysis.file_types, "py") = 3

-----------------------------------------------------------------------------
(* C12 *)

\* C12: a changed file without diff text leaves the five tech_stack tables
\* unchanged, while the programming_languages and file_types tallies and the
\* change_patterns counters are still updated for it.
C12_NoPatchNoTechSignal ==
    (op = "analyze_file" /\ input.file.patch = "") =>
        LET file == input.file
            before == input.analysis
            after == output.analysis
            Raised01(n) == IF n THEN 1 ELSE 0
        IN  /\ after.tech_stack = before.tech_stack
            /\ SumCounts(after.file_types) = SumCounts(before.file_types) + 1
            /\ SumCounts(after.programming_languages)
                  = SumCounts(before.programming_languages)
                    + Raised01(Occurs(".", file.filename)
                               /\ KnownExtension("." \o Lower(FinalExtension(file.filename))))
            /\ after.change_patterns.additions
                  = before.change_patterns.additions + file.additions
            /\ after.change_patterns.deletions
                  = before.change_patterns.deletions + file.deletions
            /\ after.change_patterns.new_files
                  = before.change_patterns.new_files + Raised01(file.status = "added")
            /\ after.change_patterns.deleted_files
                  = before.change_patterns.deleted_files + Raised01(file.status = "removed")
            /\ after.change_patterns.modifications
                  = before.change_patterns.modifications + Raised01(file.status = "modified")

\* An added Python file without diff text, analysed into an analysis that
\* holds tech stack counts.
C12_Witness ==
    /\ op = "analyze_file"
    /\ input.file.patch = ""
    /\ input.file.filename = "app.py"
    /\ input.file.status = "added"
    /\ CountOf(input.analysis.tech_stack["libraries"], "pandas") = 2
    /\ CountOf(output.analysis.programming_languages, "Python") = 1
    /\ output.analysis.change_patterns.new_files = 1

-----------------------------------------------------------------------------
(* C13 *)

\* The place of a key in a table, and the rank order of two of its entries:
\* the larger count first, equal counts in insertion order.
PlaceOf(table, key) == CHOOSE i \in 1..Len(table) : table[i].key = key
Before(table, i, j) ==
    \/ table[i].count > table[j].count
    \/ table[i].count = table[j].count /\ i < j

\* `list` holds the first n entries of `table` in rank order.
IsTopOf(list, table, n) ==
    /\ Len(list) = Min(n, Len(table))
    /\ \A k \in 1..Len(list) :
          /\ list[k].key \in KeysOf(table)
          /\ list[k].count = CountOf(table, list[k].key)
    /\ \A k \in 1..(Len(list) - 1) :
          Before(table, PlaceOf(table, list[k].key), PlaceOf(table, list[k + 1].key))
    /\ \A i \in 1..Len(table) :
          table[i].key \notin {list[k].key : k \in 1..Len(list)} =>
             \A k \in 1..Len(list) : Before(table, PlaceOf(table, list[k].key), i)

\* C13: every derived list (top_languages and the five top_<category>
\* lists) is ordered by count descending, entries of equal count keep the
\* insertion order of the table, and the list holds the first 10 entries of
\* that order for languages and the first 5 for each tech stack category.
C13_TopListsRanked ==
    op = "_calculate_tech_stack_stats" =>
        /\ IsTopOf(output.analysis.top_languages,
                   input.analysis.programming_languages, 10)
        /\ \A c \in TechCategories :
              IsTopOf(output.analysis.top[c], input.analysis.tech_stack[c], 5)

\* A table of more than 10 languages in which an entry left out of the list
\* has the count of the last entry of the list.
C13_Witness ==
    /\ op = "_calculate_tech_stack_stats"
    /\ Len(input.analysis.programming_languages) > 10
    /\ Len(output.analysis.top_languages) = 10
    /\ Len(output.analysis.top["tools"]) = 5
    /\ \E i \in 1..Len(input.analysis.programming_languages) :
          LET e == input.analysis.programming_languages[i] IN
          /\ e.count = output.analysis.top_languages[10].count
          /\ e.key \notin {output.analysis.top_languages[k].key : k \in 1..10}

-----------------------------------------------------------------------------
(* C14 *)

\* `tenths` is the share count / total in percent, rounded to one decimal
\* place and counted in tenths.
IsRoundedShare(tenths, count, total) ==
    LET d == tenths * total - count * 1000 IN
    2 * d <= total /\ 2 * d >= 0 - total

HasShares(list, table) ==
    \A k \in 1..Len(list) :
        /\ "percentage" \in DOMAIN list[k]
        /\ IsRoundedShare(list[k].percentage, list[k].count, SumCounts(table))

\* C14: every entry of every derived list carries a percentage equal to its
\* count divided by the total of the whole table, times 100, rounded to one
\* decimal place: in the language list and in each of the five tech stack
\* category lists.
C14_SharesOfTheWholeTable ==
    op = "_calculate_tech_stack_stats" =>
        /\ HasShares(output.analysis.top_languages,
                     input.analysis.programming_languages)
        /\ \A c \in TechCategories :
              HasShares(output.analysis.top[c], input.analysis.tech_stack[c])

\* The part of C14 the code implements: the shares of the language list.
C14_LanguageShares ==
    op = "_calculate_tech_stack_stats" =>
        HasShares(output.analysis.top_languages,
                  input.analysis.programming_languages)

-----------------------------------------------------------------------------
(* C15 *)

\* The identifiers of the static tables: the language names and the
\* extensions of language_map, and the technology names of tech_patterns.
StaticIdentifiers ==
    Languages
    \cup {Tail(language_map[i].ext) : i \in 1..Len(language_map)}
    \cup {TechRows[i].name : i \in 1..Len(TechRows)}

FrequencyTables(analysis) ==
    {analysis.programming_languages, analysis.file_types}
    \cup {analysis.tech_stack[c] : c \in TechCategories}

IsStaticKey(key) == key = Lower(key) /\ key \in StaticIdentifiers

\* C15: at every point of an aggregation pass (after each analysed file and
\* at the end of the pass), every key of the programming_languages table, of
\* the file_types table and of the five tech_stack tables is a lower-cased
\* identifier taken from the static tables.
C15_KeysFromStaticTables ==
    /\ op = "analyze_file" =>
          \A table \in FrequencyTables(output.analysis) :
             \A key \in KeysOf(table) : IsStaticKey(key)
    /\ (op = "GitHubClient.get_user_tech_stack" /\ ~output.client.raised) =>
          \A table \in FrequencyTables(output.client.value) :
             \A key \in KeysOf(table) : IsStaticKey(key)

\* The part of C15 the code implements: the keys of the five tech_stack
\* tables are lower-case names of tech_patterns.
C15_TechKeysFromStaticTables ==
    /\ op = "analyze_file" =>
          \A c \in TechCategories :
             \A key \in KeysOf(output.analysis.tech_stack[c]) : IsStaticKey(key)
    /\ (op = "GitHubClient.get_user_tech_stack" /\ ~output.client.raised) =>
          \A c \in TechCategories :
             \A key \in KeysOf(output.client.value.tech_stack[c]) : IsStaticKey(key)

-----------------------------------------------------------------------------
(* C16 *)

\* What role inference may read: the primary language, the framework names
\* and the tool names of a profile, lower-cased.
PrimaryLanguage(tech_stack) ==
    IF tech_stack.top_languages = <<>> THEN ""
    ELSE Lower(tech_stack.top_languages[1].key)
FrameworksOf(tech_stack) == LowerNamesOf(tech_stack.top["frameworks"])
ToolsOf(tech_stack) == LowerNamesOf(tech_stack.top["tools"])

\* The category checks of the rules.
IsDevOps(tools) == tools \cap devops_tools # {}
IsData(tools) == tools \cap data_tools # {}
IsFrontend(frameworks) == frameworks \cap frontend_frameworks # {}
IsBackend(primary, frameworks) ==
    primary \in backend_languages \/ frameworks \cap backend_frameworks # {}
IsMobile(primary, frameworks) ==
    primary \in mobile_languages \/ frameworks \cap mobile_frameworks # {}

\* The title of the first rule, in the fixed order, whose category check
\* holds.
TitleInOrder(primary, frameworks, tools) ==
    IF IsDevOps(tools) THEN "DevOps Engineer"
    ELSE IF IsData(tools)
         THEN (IF primary = "python" THEN "Data Scientist" ELSE "Data Engineer")
    ELSE IF IsFrontend(frameworks) /\ IsBackend(primary, frameworks)
         THEN "Full Stack Developer"
    ELSE IF IsFrontend(frameworks) THEN "Frontend Developer"
    ELSE IF IsBackend(primary, frameworks)
         THEN (IF primary = "rust" THEN "Systems Engineer"
               ELSE IF primary \in {"go", "c++", "c"} THEN "Backend Engineer"
               ELSE "Software Engineer")
    ELSE IF IsMobile(primary, frameworks) THEN "Mobile Developer"
    ELSE IF primary = "rust" THEN "Systems Programmer"
    ELSE IF primary \in {"python", "javascript", "typescript"}
         THEN "Software Developer"
    ELSE "Software Engineer"

\* C16: the inferred role is a function of the primary language, the
\* detected frameworks and the detected tools alone, and it is the title of
\* the first rule whose category check holds, in the order DevOps Engineer,
\* data role, Full Stack Developer, Frontend Developer, backend title,
\* Mobile Developer, Systems Programmer, Software Developer, Software
\* Engineer; so a profile with a devops tool is titled DevOps Engineer.
C16_FirstMatchingRole ==
    op = "_infer_role_title" =>
        output.title = TitleInOrder(PrimaryLanguage(input.tech_stack),
                                    FrameworksOf(input.tech_stack),
                                    ToolsOf(input.tech_stack))

\* The part of C16 the code implements: the order of the rules for a
\* profile whose devops tools come with a backend or frontend signal, or
\* that has no devops tool.
C16_FirstMatchingRoleBelowDevOps ==
    op = "_infer_role_title" =>
        LET primary == PrimaryLanguage(input.tech_stack)
            frameworks == FrameworksOf(input.tech_stack)
            tools == ToolsOf(input.tech_stack)
        IN  (IsDevOps(tools) => IsBackend(primary, frameworks) \/ IsFrontend(frameworks))
            => output.title = TitleInOrder(primary, frameworks, tools)

-----------------------------------------------------------------------------
(* C17 *)

\* `items` is what a list generator returns for the `signalled` sentences:
\* between 3 and `most` items; the generic sentences are appended exactly
\* when fewer than 3 sentences were signalled.
IsFilledAndCapped(items, signalled, generic, most) ==
    /\ Len(items) >= 3
    /\ Len(items) <= most
    /\ (Len(signalled) < 3) <=> (\E i \in 1..Len(items) : items[i] \in Range(generic))
    /\ (Len(signalled) < 3) => items = signalled \o generic
    /\ (Len(signalled) >= 3) => items = Take(signalled, most)
    /\ (signalled = <<>>) => items = generic

\* C17: for every profile, commit list and activity, the responsibilities
\* are between 3 and 6 items and the achievements between 3 and 5 items; the
\* generic filler sentences are appended exactly when fewer than 3
\* signal-triggered sentences were produced, so a profile without signals
\* yields only filler.
C17_ListsFilledAndCapped ==
    /\ op = "_generate_responsibilities" =>
          IsFilledAndCapped(output.items,
                            SignalledResponsibilities(input.tech_stack),
                            GenericResponsibilities, 6)
    /\ op = "_generate_achievements" =>
          IsFilledAndCapped(output.items, SignalledAchievements(input.tech_stack),
                            GenericAchievements, 5)

\* Responsibilities of a profile with two signals: they come first, the
\* three generic sentences follow.
C17_Witness ==
    /\ op = "_generate_responsibilities"
    /\ Len(SignalledResponsibilities(input.tech_stack)) = 2
    /\ Len(output.items) = 5
    /\ output.items[1] =
          "Containerized applications using Docker for consistent deployment environments"
    /\ SubSeq(output.items, 3, 5) = GenericResponsibilities

\* Further cases of C17: lists cut at their cap, and the profile without
\* signals.
C17_CutResponsibilities ==
    /\ op = "_generate_responsibilities"
    /\ Len(SignalledResponsibilities(input.tech_stack)) > 6
    /\ Len(output.items) = 6
C17_CutAchievements ==
    /\ op = "_generate_achievements"
    /\ Len(SignalledAchievements(input.tech_stack)) > 5
    /\ Len(output.items) = 5
C17_OnlyFiller ==
    /\ op = "_generate_achievements"
    /\ input.tech_stack = EmptyProfile
    /\ output.items = GenericAchievements

-----------------------------------------------------------------------------
(* C18 *)

NoDuplicates(items) ==
    \A i, j \in 1..Len(items) : i # j => items[i] # items[j]

\* C18: the methodologies are at most 5 items without duplicates, and at
\* least 3 items: when the signals produce fewer than 3, filler entries
\* bring the list to the floor of 3.
C18_MethodologiesFilledAndCapped ==
    op = "_infer_methodologies" =>
        /\ Len(output.items) <= 5
        /\ NoDuplicates(output.items)
        /\ Len(output.items) >= 3

\* The part of C18 the code implements: at most 5 items, no duplicates,
\* never an empty list.
C18_MethodologiesCapped ==
    op = "_infer_methodologies" =>
        /\ Len(output.items) <= 5
        /\ NoDuplicates(output.items)
        /\ Len(output.items) >= 1

-----------------------------------------------------------------------------
(* C19 *)

\* k is num / den rounded to the nearest integer.
IsNearest(k, num, den) ==
    2 * (k * den - num) <= den /\ 2 * (num - k * den) <= den

\* C19: prs_opened is the number of PullRequestEvent entries and
\* issues_opened the number of IssuesEvent entries of the activity's events;
\* prs_merged is 80% of prs_opened rounded to the nearest integer, hence at
\* most prs_opened; code_reviews is total_commits / 3 rounded to the nearest
\* integer, total_commits being the length of the commit list.
C19_MetricsFromCounts ==
    op = "_calculate_experience_metrics" =>
        LET events == input.activity.events
            metrics == output.metrics
        IN  /\ metrics.prs_opened = Count(events, LAMBDA e : e.type = "PullRequestEvent")
            /\ metrics.issues_opened = Count(events, LAMBDA e : e.type = "IssuesEvent")
            /\ IsNearest(metrics.prs_merged, 80 * metrics.prs_opened, 100)
            /\ metrics.prs_merged <= metrics.prs_opened
            /\ metrics.total_commits = Len(input.commits)
            /\ IsNearest(metrics.code_reviews, metrics.total_commits, 3)

\* Three pull request events among six events and five commits: two merged
\* and two reviews.
C19_Witness ==
    /\ op = "_calculate_experience_metrics"
    /\ Len(input.activity.events) = 6
    /\ Len(input.commits) = 5
    /\ output.metrics.prs_opened = 3
    /\ output.metrics.prs_merged = 2
    /\ output.metrics.issues_opened = 2
    /\ output.metrics.code_reviews = 2

-----------------------------------------------------------------------------
(* C20 *)

\* The token of an environment is missing, empty or whitespace only.
MissingToken(environment) == environment.GITHUB_TOKEN = None
BlankToken(environment) ==
    /\ environment.GITHUB_TOKEN # None
    /\ \A i \in 1..Len(environment.GITHUB_TOKEN) :
          CharAt(environment.GITHUB_TOKEN, i) \in {" ", "\t", "\n"}

\* C20: constructing the server with the token missing or blank (empty or
\* whitespace only) fails before any tool handler is registered: no such
\* server reaches the state in which tools are registered and callable.
C20_BlankTokenFailsAtStartup ==
    (/\ op = "GitHubActionsServer.__init__"
     /\ MissingToken(input.environment) \/ BlankToken(input.environment))
    => /\ ~output.constructed
       /\ output.tools = {}

\* The part of C20 the code implements: without a token the construction
\* fails before the tools are registered.
C20_MissingTokenFailsAtStartup ==
    (op = "GitHubActionsServer.__init__" /\ MissingToken(input.environment))
    => /\ ~output.constructed
       /\ output.tools = {}

-----------------------------------------------------------------------------
(* C21 *)

\* The commits upstream holds for the repositories of a call.
AllCommits(repos) == UNION {Range(repos[i].commits) : i \in 1..Len(repos)}

\* The counters, sets and lists of an activity come from the events, the
\* repositories and the issue search this call read.
ActivityFromOwnInput(a, up, days) ==
    LET inside == InWindow(up.events.items, Now - days) IN
    /\ a.period_days = days
    /\ a.total_events = Len(inside)
    /\ Len(a.events) = Len(inside)
    /\ a.repositories_active \subseteq {e.repo : e \in Range(inside)}
    /\ DOMAIN a.event_types \subseteq {e.type : e \in Range(inside)}
    /\ Range(a.commits) \subseteq AllCommits(up.repos)
    /\ Len(a.commits) = Cardinality(Range(a.commits))
    /\ Range(a.issues) \cup Range(a.pull_requests) \subseteq Range(up.search.items)
    /\ Len(a.issues) + Len(a.pull_requests) <= Len(up.search.items)

\* The counters, sets and lists of a tech stack analysis come from the
\* repositories this call read.
AnalysisFromOwnInput(v, up, days) ==
    LET commits == {c \in AllCommits(up.repos) : c.date >= Now - days} IN
    /\ v.days = days
    /\ v.commits_analyzed <= Cardinality(commits)
    /\ v.total_commits <= Cardinality(commits)
    /\ Len(v.change_descriptions) <= Cardinality(commits)
    /\ v.repos_contributed \subseteq {c.repository : c \in commits}
    /\ (\A c \in commits : c.files = <<>>) =>
          /\ v.programming_languages = NoCounts
          /\ v.file_types = NoCounts
          /\ \A t \in TechCategories : v.tech_stack[t] = NoCounts
          /\ v.change_patterns =
                [additions |-> 0, deletions |-> 0, modifications |-> 0,
                 new_files |-> 0, deleted_files |-> 0]

-----------------------------------------------------------------------------
(* C22 *)

\* The fixed key set of each recognized event type, nested fields flattened
\* under dotted names.
DocumentedKeys(type) ==
    CASE type = "PushEvent" -> {"commits", "ref", "head", "size"}
      [] type = "IssuesEvent" ->
            {"action", "issue.number", "issue.title", "issue.state", "issue.url"}
      [] type = "PullRequestEvent" ->
            {"action", "pull_request.number", "pull_request.title",
             "pull_request.state", "pull_request.url"}
      [] type = "CreateEvent" -> {"ref_type", "ref", "description"}
      [] type = "DeleteEvent" -> {"ref_type", "ref"}
      [] type = "WatchEvent" -> {"action"}
      [] type = "ForkEvent" -> {"forkee.full_name", "forkee.url"}
      [] type = "ReleaseEvent" ->
            {"action", "release.tag_name", "release.name", "release.url"}
      [] OTHER -> {}

\* The events of a successful get_user_activity call, each paired with the
\* payload the result lists for it.
ListedPayloads ==
    IF op = "get_user_activity" /\ output.kind = "json"
          /\ Len(output.body.events) = Len(InWindow(input.up.events.items, Now - DaysOf(input)))
    THEN LET inside == InWindow(input.up.events.items, Now - DaysOf(input)) IN
         {[event |-> inside[i], payload |-> output.body.events[i].payload] :
             i \in 1..Len(inside)}
    ELSE {}

\* The statement as claimed: every event of a recognized type has exactly the
\* fixed key set of its type whatever its raw payload holds, and every other
\* event has its raw payload unchanged.
C22_FixedKeySetWhateverThePayload ==
    \A l \in ListedPayloads :
        IF l.event.type \in RecognizedTypes
        THEN l.payload = Fields(DocumentedKeys(l.event.type))
        ELSE l.payload = RawPayload(l.event.payload)

\* C22: in get_user_activity the payload of an event of a recognized type has
\* exactly the fixed key set of that type whenever the raw payload is a dict
\* whose nested object (or commit list) is not null, missing fields getting
\* defaults; when the payload is absent or the nested value is null the
\* payload is the error record; the payload of an event of any other type is
\* the raw payload unchanged, an absent payload becoming the empty dict.
C22_FixedKeySetUnlessExtractionFails ==
    \A l \in ListedPayloads :
        IF l.event.type \in RecognizedTypes
        THEN IF l.event.payload.none
                  \/ NestedKey(l.event.type) \in l.event.payload.null
             THEN l.payload = ErrorPayload
             ELSE l.payload = Fields(DocumentedKeys(l.event.type))
        ELSE IF l.event.payload.none
             THEN l.payload = RawPayload(PayloadEmpty)
             ELSE l.payload = RawPayload(l.event.payload)

\* A release event with an empty raw payload: all four keys, by default.
C22_Witness ==
    \E l \in ListedPayloads :
        /\ l.event.type = "ReleaseEvent"
        /\ l.event.payload = PayloadEmpty
        /\ l.payload = Fields({"action", "release.tag_name", "release.name", "release.url"})

\* An event of another type with its raw payload passed through.
C22_RawWitness ==
    \E l \in ListedPayloads :
        /\ l.event.type = "GollumEvent"
        /\ l.payload = RawPayload(PayloadFull)

-----------------------------------------------------------------------------
(* C23 *)

\* The events an event tool returned, each paired with the payload of its
\* entry in the response.
FormattedPayloads ==
    IF op \in EventTools /\ output.kind = "json"
    THEN {[event |-> output.client.value[i], payload |-> output.body[i].payload] :
             i \in 1..Len(output.body)}
    ELSE {}

\* C23: in the get_user_events and get_repository_events tools each of the
\* eight recognized event types, ReleaseEvent included, yields its fixed,
\* non-empty field subset, and an event of any other type has its raw
\* payload passed through unchanged.
C23_ToolsProjectEightTypes ==
    \A l \in FormattedPayloads :
        IF l.event.type \in RecognizedTypes
        THEN l.payload.kind = "fields" /\ l.payload.keys # {}
        ELSE l.payload = RawPayload(l.event.payload)

\* What holds: the seven types the server has a branch for yield their fixed
\* key set; every other type, ReleaseEvent among them, yields the empty dict.
C23_ToolsProjectSevenTypes ==
    \A l \in FormattedPayloads :
        IF l.event.type \in ServerTypes
        THEN l.payload = Fields(ServerKeys(l.event.type))
        ELSE l.payload = Fields({})

-----------------------------------------------------------------------------
(* C26 *)

\* The events of a stream that come before its first event older than
\* `since`.
UpToFirstOlder(items, since) ==
    LET older == {i \in 1..Len(items) : items[i].created_at < since} IN
    IF older = {} THEN items
    ELSE SubSeq(items, 1, (CHOOSE i \in older : \A j \in older : i <= j) - 1)

\* C26: get_user_activity stops accumulating at the first event of the stream
\* whose created_at < since: no event that comes after such an event in
\* stream order is listed or counted, even if its own created_at >= since.
C26_StopsAtFirstOlderEvent ==
    (op = "get_user_activity" /\ output.kind = "json") =>
        LET kept == UpToFirstOlder(input.up.events.items, Now - DaysOf(input)) IN
        /\ output.body.total_events = Len(kept)
        /\ Len(output.body.events) = Len(kept)

\* What holds: an older event is passed over and the walk goes on, so every
\* event of the stream with created_at >= since is listed and counted,
\* wherever it stands.
C26_SkipsOlderEvents ==
    (op = "get_user_activity" /\ output.kind = "json") =>
        LET inside == InWindow(input.up.events.items, Now - DaysOf(input)) IN
        /\ output.body.total_events = Len(inside)
        /\ Len(output.body.events) = Len(inside)
        /\ \A i \in 1..Len(inside) :
              output.body.events[i].created_at = inside[i].created_at

-----------------------------------------------------------------------------
(* C27 *)

\* C27: get_user_activity requests commits from every repository the user
\* owns: no owned repository is skipped on the basis of its own updated_at,
\* so a commit inside the window is listed even when its repository's
\* updated_at is older than the window start.
C27_NoRepositorySkipped ==
    (op = "get_user_activity" /\ output.kind = "json") =>
        LET since == Now - DaysOf(input)
            repos == input.up.repos
        IN  \A i \in 1..Len(repos) :
                ~QueryFails(repos[i], since) =>
                    Range(UpstreamCommits(repos[i], since))
                        \subseteq Range(output.body.commits)

\* What holds: the commits of the repositories with updated_at >= since are
\* listed; a repository with updated_at < since is passed over unqueried.
C27_StaleRepositorySkipped ==
    (op = "get_user_activity" /\ output.kind = "json") =>
        LET since == Now - DaysOf(input)
            repos == input.up.repos
            queried == {i \in 1..Len(repos) : ~SkipRepository(repos[i], since)}
        IN  /\ Range(output.body.commits) \subseteq CommitsOf(repos, queried, since)
            /\ CommitsOf(repos, {i \in queried : ~QueryFails(repos[i], since)}, since)
                  \subseteq Range(output.body.commits)

-----------------------------------------------------------------------------
(* C28 *)

\* The three commit counts of an analysis agree.
CountsAgree(v) ==
    /\ v.total_commits = v.commits_analyzed
    /\ v.total_commits = Len(v.change_descriptions)

\* Reading the message of some commit of the call raises.
SomeMessageFails(up) ==
    \E i \in 1..Len(up.repos) : \E k \in 1..Len(up.repos[i].commits) :
        up.repos[i].commits[k].raises = "message"

\* C28: whenever get_user_tech_stack returns, commit_summary.total_commits
\* equals analysis_period.commits_analyzed and the number of entries of
\* commit_summary.change_descriptions, also when the analysis of a commit's
\* files or the processing of a repository failed part-way through the pass.
C28_CommitCountsAgree ==
    (op = "GitHubClient.get_user_tech_stack" /\ ~output.client.raised) =>
        CountsAgree(output.client.value)

\* What holds: the counts agree when the commit query of a repository fails
\* and when the files of a commit cannot be read; a commit whose message
\* cannot be read is counted in total_commits only, so total_commits is then
\* at most one more per repository than the other two, which stay equal.
C28_CommitCountsAgreeUnlessMessageFails ==
    (op = "GitHubClient.get_user_tech_stack" /\ ~output.client.raised) =>
        LET v == output.client.value IN
        /\ ~SomeMessageFails(input.up) => CountsAgree(v)
        /\ v.commits_analyzed = Len(v.change_descriptions)
        /\ v.commits_analyzed <= v.total_commits
        /\ v.total_commits <= v.commits_analyzed + Len(input.up.repos)

-----------------------------------------------------------------------------
(* C24 *)

\* The three fetches of a generate_work_experience call succeed.
Fetched(up, days) ==
    /\ ~up.lookupFails
    /\ ~get_user_tech_stack(up, days, TechStackLimit).raised
    /\ ~get_user_commits(up, NoSince, CommitListLimit).raised
    /\ ~get_user_activity(up, days).raised

\* C24: for every profile, commit list and activity, including empty ones and
\* ones whose optional parts are absent (no events, zero commits analysed, a
\* commit with no linked author account), every step of the synthesis
\* returns a value without raising.
C24_SynthesisNeverRaises ==
    /\ (op = "_analyze_collaboration") => ~output.client.raised
    /\ (op = "GitHubClient.generate_work_experience"
           /\ Fetched(input.up, input.arguments.days)) => ~output.client.raised

\* What holds: the collaboration step raises exactly when the first commit of
\* the list is linked to no account and a contributed repository has a '/'
\* in its name; generate_work_experience raises exactly then (the analysis
\* names every repository owner/name) or when a fetch raised.
C24_RaisesForUnlinkedAuthor ==
    /\ (op = "_analyze_collaboration") =>
          (output.client.raised <=>
              /\ input.commits # <<>>
              /\ input.commits[1].author = None
              /\ \E i \in 1..Len(input.repos_contributed) :
                    HasSlash(input.repos_contributed[i]))
    /\ (op = "GitHubClient.generate_work_experience"
           /\ Fetched(input.up, input.arguments.days)) =>
          LET commits == get_user_commits(input.up, NoSince, CommitListLimit).value
              analysis == get_user_tech_stack(input.up, input.arguments.days,
                                              TechStackLimit).value
          IN  output.client.raised <=>
                 /\ commits # <<>>
                 /\ commits[1].author = None
                 /\ analysis.repos_contributed # {}

-----------------------------------------------------------------------------
(* C25 *)

\* C25: the synthesis is deterministic: two runs on identical profile, commit
\* list and activity produce identical outputs, including the order of the
\* items of the methodologies list.
C25_MethodologiesDetermined ==
    (op = "_infer_methodologies") =>
        \A list \in _infer_methodologies(input.tech_stack, input.commits) :
            list = output.items

\* What holds: every run returns the same number of items, all of them among
\* the methodologies the input signals (or the two defaults); when these are
\* at most 5, every run returns the same items, in an order that is not
\* fixed.
C25_MethodologiesDeterminedUpToOrder ==
    (op = "_infer_methodologies") =>
        LET signalled == SignalledMethodologies(input.tech_stack, input.commits)
            all == IF signalled = {} THEN DefaultMethodologies ELSE signalled
        IN  /\ Len(output.items) = Min(MaxMethodologies, Cardinality(all))
            /\ Range(output.items) \subseteq all
            /\ Cardinality(all) <= MaxMethodologies => Range(output.items) = all

-----------------------------------------------------------------------------
(* C29 *)

UnreachableTitles == {"Data Scientist", "Data Engineer", "Systems Programmer"}

\* C29: for every profile produced by get_user_tech_stack the role title
\* inferred by generate_work_experience is never "Data Scientist", "Data
\* Engineer" or "Systems Programmer": no technology of the tools table is one
\* of the data-science tools the data-role check looks for, and a primary
\* language of rust satisfies the backend check.
C29_UnreachableTitles ==
    /\ Range(TechNames("tools")) \cap data_tools = {}
    /\ (op = "GitHubClient.generate_work_experience" /\ ~output.client.raised) =>
          output.client.value.role_title_inferred \notin UnreachableTitles
    /\ (op = "GitHubClient.get_user_tech_stack" /\ ~output.client.raised) =>
          _infer_role_title(output.client.value, <<>>) \notin UnreachableTitles

\* A profile whose only language is Rust: the title is that of the backend
\* rule.
C29_Witness ==
    /\ op = "GitHubClient.generate_work_experience"
    /\ ~output.client.raised
    /\ output.client.value.technologies = <<"Rust">>
    /\ output.client.value.role_title_inferred = "Systems Engineer"

\* A profile of Python code that imports pandas, numpy and tensorflow: they
\* are counted as libraries and a framework, and the title is not a data
\* role.
C29_DataWitness ==
    /\ op = "GitHubClient.generate_work_experience"
    /\ ~output.client.raised
    /\ input.up.repos # <<>>
    /\ input.up.repos[1].commits[1].message = "Train the model"
    /\ output.client.value.technologies = <<"Python">>
    /\ output.client.value.role_title_inferred = "Software Engineer"

-----------------------------------------------------------------------------
(* C30 *)

\* The commits upstream holds for a call, dated `since` or later.
CommitsSince(up, since) == {c \in AllCommits(up.repos) : c.date >= since}

\* The total_commits of the profiles a call with `days` may return.
TotalsFor(call, days) ==
    {r.value.metrics.total_commits :
        r \in {x \in generate_work_experience(call.up, call.arguments.username,
                                              call.arguments.repo_name,
                                              call.arguments.organization, days) :
                  ~x.raised}}

\* C30: in generate_work_experience metrics.total_commits is the length of
\* the commit list of the one-year window cut to 100: it never exceeds 100
\* and is the same for every `days`, whereas the commits_analyzed of the
\* analysis used in the same result is that of the window of `days`, cut to
\* 200.
C30_TotalCommitsOfTheYear ==
    (op = "GitHubClient.generate_work_experience" /\ ~output.client.raised) =>
        LET up == input.up
            days == input.arguments.days
            total == output.client.value.metrics.total_commits
            analysis == get_user_tech_stack(up, days, TechStackLimit).value
        IN  /\ total = Min(100, Cardinality(CommitsSince(up, Now - DefaultDays)))
            /\ total <= 100
            /\ \A d \in ExperienceDays : TotalsFor(input, d) \subseteq {total}
            /\ analysis.commits_analyzed = Min(200, Cardinality(CommitsSince(up, Now - days)))
            /\ analysis.commits_analyzed <= 200

\* More than 100 commits of the year, none of them in a window of one day:
\* 100 commits in total, none analysed.
C30_Witness ==
    /\ op = "GitHubClient.generate_work_experience"
    /\ ~output.client.raised
    /\ input.arguments.days = 1
    /\ Cardinality(CommitsSince(input.up, Now - DefaultDays)) > 100
    /\ output.client.value.metrics.total_commits = 100
    /\ get_user_tech_stack(input.up, 1, TechStackLimit).value.commits_analyzed = 0

\* More than 200 commits in the window: 200 analysed, 100 in total.
C30_CapWitness ==
    /\ op = "GitHubClient.generate_work_experience"
    /\ ~output.client.raised
    /\ Cardinality(CommitsSince(input.up, Now - input.arguments.days)) > 200
    /\ output.client.value.metrics.total_commits = 100
    /\ get_user_tech_stack(input.up, input.arguments.days,
                           TechStackLimit).value.commits_analyzed = 200

=============================================================================
